---- MODULE Spec2Model ----
(***************************************************************************)
(* A model of the interval classification, store, grouping and zoom engine *)
(* of intervals-viewer: analyzer/intervals.py (rule table, classification) *)
(* and analyzer/analysis.py (EventsInspector), and of the download worker  *)
(* and its checker in ui/import_timeline_view.py.                          *)
(*                                                                         *)
(* Time is counted in whole seconds (the ingest format                     *)
(* "%Y-%m-%dT%H:%M:%SZ" has second resolution).  A pandas DataFrame is a   *)
(* record [columns, rows]: the set of its columns (the frame               *)
(* pd.DataFrame() of __init__ has none) and the sequence of its rows in    *)
(* index order.  An OrderedDict is a sequence of <<key, value>>.           *)
(* A Python exception leaving a method is recorded in `raised`; the        *)
(* assignments the method made before the raise are kept.                  *)
(***************************************************************************)
EXTENDS Integers, Sequences, FiniteSets, TLC

VARIABLES
    events_df,                \* EventsInspector.events_df
    absolute_timeline_start,  \* EventsInspector.absolute_timeline_start
    absolute_timeline_stop,   \* EventsInspector.absolute_timeline_stop
    zoom_timeline_start,      \* EventsInspector.zoom_timeline_start
    zoom_timeline_stop,       \* EventsInspector.zoom_timeline_stop
    selected_rows,            \* EventsInspector.selected_rows
    current_timeline_width,   \* EventsInspector.current_timeline_width
    current_pixels_per_second_in_timeline, \* <<numerator, denominator>>
    current_zoom_timeline_seconds,         \* EventsInspector.current_zoom_timeline_seconds
    all_timelines,            \* EventsInspector.all_timelines
    selected_timelines,       \* EventsInspector.selected_timelines
    selected_timeline_keys,   \* EventsInspector.selected_timeline_keys
    last_filter_query,        \* EventsInspector.last_filter_query
    last_call,                \* the most recent call on the inspector and its arguments
    raised,                   \* the exception that call raised, or NoException
    worker_pc,                \* download_file: the statement the worker thread is at
    worker_url,               \* download_file: its argument url
    status_lock,              \* threading.Lock: "free", or the thread that holds it
    status,                   \* the DownloadStatus shared by worker and checker
    checker_pc,               \* check_download: the statement the UI thread is at
    status_area,              \* ImportTimelineView.status_area.text
    loaded,                   \* the buffers load_data was called with, in call order
    or_fields_set,            \* FilteringView.or_fields_set.field_sets: the texts of the dialog
    imports,                  \* the imports started: thread, DownloadStatus and checker of each
    download_checker          \* ImportTimelineView.download_checker: the import whose checker it holds

vars == << events_df, absolute_timeline_start, absolute_timeline_stop,
           zoom_timeline_start, zoom_timeline_stop, selected_rows,
           current_timeline_width, current_pixels_per_second_in_timeline,
           current_zoom_timeline_seconds, all_timelines, selected_timelines,
           selected_timeline_keys, last_filter_query, last_call, raised,
           worker_pc, worker_url, status_lock, status, checker_pc, status_area,
           loaded, or_fields_set, imports, download_checker >>

\* the variables of the filter dialog
dialog_vars == << or_fields_set >>

\* the variables of the view that starts the imports
imports_vars == << imports, download_checker >>

\* the variables of the download worker and its checker
download_vars ==
    << worker_pc, worker_url, status_lock, status, checker_pc, status_area, loaded >>

\* the variables of the inspector
inspector_vars ==
    << events_df, absolute_timeline_start, absolute_timeline_stop,
       zoom_timeline_start, zoom_timeline_stop, selected_rows,
       current_timeline_width, current_pixels_per_second_in_timeline,
       current_zoom_timeline_seconds, all_timelines, selected_timelines,
       selected_timeline_keys, last_filter_query, last_call, raised >>

----------------------------------------------------------------------------
(* Bounds of the model *)

\* the most raw records in the store after a load into a store that
\* already holds records
MaxStore == 2

\* the most raw records of a batch loaded into the empty store
MaxBatch == 3

\* the most chunks a download response delivers
MaxChunks == 2

\* the most field sets of the filter dialog (one, and those added with 'Add OR')
MaxFieldSets == 2

\* the most clicks on Import
MaxImports == 2

(* Program constants *)

\* zoom_to_dates: timedelta(seconds=10)
MinZoomSeconds == 10
\* Timestamp.floor('min') / ceil('min')
SecondsPerMinute == 60
\* __init__: timedelta(minutes=60)
InitSpanSeconds == 3600
\* __init__: pd.Timestamp.now(), an instant later than all ingested data
NowAtInit == 1000

\* left_offset_to_datetime: timedelta(microseconds=int(... * 1000000))
MicrosecondsPerSecond == 1000000

\* a missing value: None / NaN / a JSON key that is absent
Null == "<null>"
\* a raw record without the `to` key
NoTime == -1

NoException == "none"

----------------------------------------------------------------------------
(* Strings.  TLC cannot order strings, so the strings that take part in a  *)
(* sort are listed in ascending (codepoint) order.                         *)

StringOrder ==
    << "", "Alert", "ClusterState", "Disruption", "E2ETest", "KubeEvent",
       "KubeletLog", "NodeState", "OperatorState", "Pod", "PodLog",
       "Unclassified", "a", "b", "c", "container-lifecycle",
       "container-readiness" >>

StrRank(s) == CHOOSE i \in 1..Len(StringOrder) : StringOrder[i] = s

StrLess(s, t) == StrRank(s) < StrRank(t)

\* str.lower() on the display names of categories and classifications
\* (IntervalClassification.apply); any other string of the model is already
\* lower case
Lower(s) ==
    CASE s = "Alert" -> "alert"
      [] s = "KubeEvent" -> "kubeevent"
      [] s = "KubeletLog" -> "kubeletlog"
      [] s = "NodeState" -> "nodestate"
      [] s = "OperatorState" -> "operatorstate"
      [] s = "Pod" -> "pod"
      [] s = "E2ETest" -> "e2etest"
      [] s = "Disruption" -> "disruption"
      [] s = "ClusterState" -> "clusterstate"
      [] s = "PodLog" -> "podlog"
      [] s = "Unclassified" -> "unclassified"
      [] s = "PathologicalKnown" -> "pathologicalknown"
      [] s = "InterestingEvent" -> "interestingevent"
      [] s = "PathologicalNew" -> "pathologicalnew"
      [] s = "AlertPending" -> "alertpending"
      [] s = "AlertInfo" -> "alertinfo"
      [] s = "AlertWarning" -> "alertwarning"
      [] s = "AlertCritical" -> "alertcritical"
      [] s = "OperatorUnavailable" -> "operatorunavailable"
      [] s = "OperatorDegraded" -> "operatordegraded"
      [] s = "OperatorProgressing" -> "operatorprogressing"
      [] s = "NodeDrain" -> "nodedrain"
      [] s = "NodeReboot" -> "nodereboot"
      [] s = "NodeOperatingSystemUpdate" -> "nodeoperatingsystemupdate"
      [] s = "NodeUpdate" -> "nodeupdate"
      [] s = "NodeNotReady" -> "nodenotready"
      [] s = "TestPassed" -> "testpassed"
      [] s = "TestSkipped" -> "testskipped"
      [] s = "TestFlaked" -> "testflaked"
      [] s = "TestFailed" -> "testfailed"
      [] s = "PodCreated" -> "podcreated"
      [] s = "PodScheduled" -> "podscheduled"
      [] s = "PodTerminating" -> "podterminating"
      [] s = "ContainerWait" -> "containerwait"
      [] s = "ContainerStart" -> "containerstart"
      [] s = "ContainerNotReady" -> "containernotready"
      [] s = "ContainerReady" -> "containerready"
      [] s = "ContainerReadinessFailed" -> "containerreadinessfailed"
      [] s = "ContainerReadinessErrored" -> "containerreadinesserrored"
      [] s = "StartupProbeFailed" -> "startupprobefailed"
      [] s = "CIClusterDisruption" -> "ciclusterdisruption"
      [] s = "Degraded" -> "degraded"
      [] s = "Upgradeable" -> "upgradeable"
      [] s = "StatusFalse" -> "statusfalse"
      [] s = "StatusUnknown" -> "statusunknown"
      [] s = "PodLogWarning" -> "podlogwarning"
      [] s = "PodLogError" -> "podlogerror"
      [] s = "PodLogInfo" -> "podloginfo"
      [] s = "PodLogOther" -> "podlogother"
      [] s = "Unknown" -> "unknown"
      [] s = "Available" -> "available"
      [] s = "Progressing" -> "progressing"
      [] s = "Drain" -> "drain"
      [] s = "Reboot" -> "reboot"
      [] s = "OperatingSystemUpdate" -> "operatingsystemupdate"
      [] s = "NotReady" -> "notready"
      [] s = "Passed" -> "passed"
      [] s = "Skipped" -> "skipped"
      [] s = "Flaked" -> "flaked"
      [] s = "Failed" -> "failed"
      [] s = "Created" -> "created"
      [] s = "Scheduled" -> "scheduled"
      [] s = "GracefulDelete" -> "gracefuldelete"
      [] s = "Ready" -> "ready"
      [] s = "ReadinessFailed" -> "readinessfailed"
      [] s = "ReadinessErrored" -> "readinesserrored"
      [] s = "True" -> "true"
      [] s = "False" -> "false"
      [] s = "Firing" -> "firing"
      [] s = "Critical" -> "critical"
      [] s = "Namespace" -> "namespace"
      [] s = "UID" -> "uid"
      [] s = "Classification" -> "classification"
      [] s = "Category" -> "category"
      [] s = "Message" -> "message"
      [] s = "A" -> "a"
      [] s = "AB" -> "ab"
      [] OTHER -> s

----------------------------------------------------------------------------
(* analyzer/intervals.py: categories, matchers and the rule table *)

\* IntervalCategory objects by display name; the flag is
\* order_timelines_by_earliest_from
IntervalCategories ==
    [ Alert |-> FALSE, KubeEvent |-> FALSE, KubeletLog |-> FALSE,
      NodeState |-> FALSE, OperatorState |-> FALSE, Pod |-> FALSE,
      E2ETest |-> TRUE, Disruption |-> FALSE, ClusterState |-> FALSE,
      PodLog |-> FALSE, Unclassified |-> FALSE ]

\* SimpleIntervalMatcher(temp_source, locator_type, locator_keys_exist,
\*                       annotations_match, message_contains)
\* temp_source / locator_type: the set of accepted values ({} = not given);
\* annotations_match: set of <<name, value>>; message_contains: Null = not given.
\* No rule of the table gives locator_keys_match, reason, cause or
\* annotations_exist.
SimpleIntervalMatcher(temp_source, locator_type, locator_keys_exist, annotations_match, message_contains) ==
    [ temp_source |-> temp_source,
      locator_type |-> locator_type,
      locator_keys_exist |-> locator_keys_exist,
      annotations_match |-> annotations_match,
      message_contains |-> message_contains ]

NoMatcher == SimpleIntervalMatcher({}, {}, {}, {}, Null)

IntervalClassification(name, display_name, category, has_matcher, matcher, diff) ==
    [ name |-> name, display_name |-> display_name, category |-> category,
      has_matcher |-> has_matcher, series_matcher |-> matcher,
      timeline_differentiator |-> diff ]

\* a classification matched on tempSource and one or more annotations
BySource(name, category, source, annotations) ==
    IntervalClassification(name, name, category, TRUE,
        SimpleIntervalMatcher(source, {}, {}, annotations, Null), "")

\* a node classification: locator type and annotations
ByNode(name, annotations) ==
    IntervalClassification(name, name, "NodeState", TRUE,
        SimpleIntervalMatcher({}, {"Node"}, {}, annotations, Null), "")

\* a container classification: PodState, the container key and a reason
ByContainer(name, reason, diff) ==
    IntervalClassification(name, name, "Pod", TRUE,
        SimpleIntervalMatcher({"PodState"}, {}, {"container"},
                              {<<"reason", reason>>}, Null), diff)

Unmatched(name, category) ==
    IntervalClassification(name, name, category, FALSE, NoMatcher, "")

ClusterRunningTests == "likely a problem in cluster running tests"

PodLogSources == {"PodLog", "EtcdLog"}

\* the Enum IntervalClassifications, in declaration (= iteration) order
IntervalClassifications ==
    << BySource("PathologicalKnown", "KubeEvent", {"KubeEvent"},
                {<<"interesting", "true">>, <<"pathological", "true">>}),
       BySource("InterestingEvent", "KubeEvent", {"KubeEvent"},
                {<<"interesting", "true">>}),
       BySource("PathologicalNew", "KubeEvent", {"KubeEvent"},
                {<<"pathological", "true">>}),
       BySource("AlertPending", "Alert", {"Alert"}, {<<"alertstate", "pending">>}),
       BySource("AlertInfo", "Alert", {"Alert"}, {<<"severity", "info">>}),
       BySource("AlertWarning", "Alert", {"Alert"}, {<<"severity", "warning">>}),
       BySource("AlertCritical", "Alert", {"Alert"}, {<<"severity", "critical">>}),
       BySource("OperatorUnavailable", "OperatorState", {"OperatorState"},
                {<<"condition", "Available">>, <<"status", "false">>}),
       BySource("OperatorDegraded", "OperatorState", {"OperatorState"},
                {<<"condition", "Degraded">>, <<"status", "true">>}),
       BySource("OperatorProgressing", "OperatorState", {"OperatorState"},
                {<<"condition", "Progressing">>, <<"status", "true">>}),
       ByNode("NodeDrain", {<<"phase", "Drain">>}),
       ByNode("NodeReboot", {<<"phase", "Reboot">>}),
       ByNode("NodeOperatingSystemUpdate", {<<"phase", "OperatingSystemUpdate">>}),
       ByNode("NodeUpdate", {<<"reason", "NodeUpdate">>}),
       ByNode("NodeNotReady", {<<"reason", "NotReady">>}),
       BySource("TestPassed", "E2ETest", {"E2ETest"}, {<<"status", "Passed">>}),
       BySource("TestSkipped", "E2ETest", {"E2ETest"}, {<<"status", "Skipped">>}),
       BySource("TestFlaked", "E2ETest", {"E2ETest"}, {<<"status", "Flaked">>}),
       BySource("TestFailed", "E2ETest", {"E2ETest"}, {<<"status", "Failed">>}),
       BySource("PodCreated", "Pod", {"PodState"}, {<<"reason", "Created">>}),
       BySource("PodScheduled", "Pod", {"PodState"}, {<<"reason", "Scheduled">>}),
       BySource("PodTerminating", "Pod", {"PodState"}, {<<"reason", "GracefulDelete">>}),
       ByContainer("ContainerWait", "ContainerWait", "container-lifecycle"),
       ByContainer("ContainerStart", "ContainerStart", "container-lifecycle"),
       ByContainer("ContainerNotReady", "NotReady", "container-readiness"),
       ByContainer("ContainerReady", "Ready", "container-readiness"),
       ByContainer("ContainerReadinessFailed", "ReadinessFailed", "container-readiness"),
       ByContainer("ContainerReadinessErrored", "ReadinessErrored", "container-readiness"),
       IntervalClassification("StartupProbeFailed", "StartupProbeFailed", "Pod", TRUE,
           SimpleIntervalMatcher({"PodState"}, {}, {},
                                 {<<"reason", "StartupProbeFailed">>}, Null),
           "container-readiness"),
       IntervalClassification("CIClusterDisruption", "CIClusterDisruption",
           "Disruption", TRUE,
           SimpleIntervalMatcher({"Disruption"}, {}, {}, {}, ClusterRunningTests), ""),
       BySource("Disruption", "Disruption", {"Disruption"}, {}),
       Unmatched("Degraded", "ClusterState"),
       Unmatched("Upgradeable", "ClusterState"),
       Unmatched("StatusFalse", "ClusterState"),
       Unmatched("StatusUnknown", "ClusterState"),
       BySource("PodLogWarning", "PodLog", PodLogSources, {<<"severity", "warning">>}),
       BySource("PodLogError", "PodLog", PodLogSources, {<<"severity", "error">>}),
       BySource("PodLogInfo", "PodLog", PodLogSources, {<<"severity", "info">>}),
       BySource("PodLogOther", "PodLog", PodLogSources, {}),
       IntervalClassification("UnknownClassification", "Unknown", "Unclassified",
           TRUE, NoMatcher, "") >>

----------------------------------------------------------------------------
(* Raw records and the columns of a batch (pd.json_normalize)             *)
(*                                                                         *)
(* A raw record: tempSource, ltype (tempStructuredLocator.type), lkeys     *)
(* (tempStructuredLocator.keys, a set of <<key, value>>), ann              *)
(* (tempStructuredMessage.annotations, a set of <<name, value>>), reason   *)
(* (tempStructuredMessage.reason), message, locator, from, to.  An absent  *)
(* string is Null, an absent `to` is NoTime.                               *)

RawRecord(tempSource, ltype, lkeys, ann, reason, message, locator, from, to) ==
    [ tempSource |-> tempSource, ltype |-> ltype, lkeys |-> lkeys, ann |-> ann,
      reason |-> reason, message |-> message, locator |-> locator,
      from |-> from, to |-> to ]

\* IntervalAnalyzer.get_message_annotation: the value of a column
\* tempStructuredMessage.annotations.<name> in a row, Null when not set
get_message_annotation(row, name) ==
    IF \E p \in row.ann : p[1] = name
    THEN (CHOOSE p \in row.ann : p[1] = name)[2]
    ELSE Null

\* IntervalAnalyzer.get_locator_key
get_locator_key(row, key) ==
    IF \E p \in row.lkeys : p[1] = key
    THEN (CHOOSE p \in row.lkeys : p[1] = key)[2]
    ELSE Null

\* the columns json_normalize creates for a batch: one per key that occurs
\* in at least one record
Columns(rows) ==
    UNION { ( (IF rows[i].tempSource # Null THEN {<<"tempSource">>} ELSE {})
              \cup (IF rows[i].ltype # Null THEN {<<"tempStructuredLocator.type">>} ELSE {})
              \cup { <<"tempStructuredLocator.keys", p[1]>> : p \in rows[i].lkeys }
              \cup { <<"tempStructuredMessage.annotations", p[1]>> : p \in rows[i].ann }
              \cup (IF rows[i].reason # Null THEN {<<"tempStructuredMessage.reason">>} ELSE {})
              \cup (IF rows[i].message # Null THEN {<<"message">>} ELSE {})
              \cup (IF rows[i].locator # Null THEN {<<"locator">>} ELSE {})
              \cup (IF rows[i].from # NoTime THEN {<<"from">>} ELSE {})
              \cup (IF rows[i].to # NoTime THEN {<<"to">>} ELSE {}) )
            : i \in DOMAIN rows }

\* the columns the targeting_query of a matcher names
\* (SimpleIntervalMatcher.__init__: add__and_equal, add__and_not_null,
\* add__and_all_equal, message_contains)
TargetingColumns(m) ==
    (IF m.temp_source # {} THEN {<<"tempSource">>} ELSE {})
    \cup (IF m.locator_type # {} THEN {<<"tempStructuredLocator.type">>} ELSE {})
    \cup { <<"tempStructuredLocator.keys", k>> : k \in m.locator_keys_exist }
    \cup { <<"tempStructuredMessage.annotations", p[1]>> : p \in m.annotations_match }
    \cup (IF m.message_contains # Null THEN {<<"message">>} ELSE {})

\* Series.str.contains on the messages of the model
DisruptionMessage == "disruption: likely a problem in cluster running tests"

StrContains(value, sub) ==
    /\ value # Null
    /\ <<value, sub>> \in { <<DisruptionMessage, ClusterRunningTests>> }

\* the targeting_query of a matcher without its first conjunct
MatcherConstraintsHold(m, row) ==
    /\ m.temp_source # {} => row.tempSource \in m.temp_source
    /\ m.locator_type # {} => row.ltype \in m.locator_type
    /\ \A k \in m.locator_keys_exist : get_locator_key(row, k) # Null
    /\ \A p \in m.annotations_match : get_message_annotation(row, p[1]) = p[2]
    /\ m.message_contains # Null => StrContains(row.message, m.message_contains)

\* a plausible slip: the 'classification.isnull()' conjunct is left out
targeting_query_overwriting(m, row) ==
    MatcherConstraintsHold(m, row)

\* events_df.eval(targeting_query) for one row:
\* 'classification.isnull()' & the matcher's constraints
targeting_query(m, row) ==
    /\ row.classification = Null
    /\ MatcherConstraintsHold(m, row)

\* a plausible slip: apply does not set the category columns
apply_without_category(c, columns, row) ==
    IF ~c.has_matcher THEN row
    ELSE IF ~(TargetingColumns(c.series_matcher) \subseteq columns) THEN row
    ELSE IF targeting_query(c.series_matcher, row)
    THEN [ row EXCEPT !.classification = c.name,
                      !.classification_str_lower = Lower(c.display_name),
                      !.timeline_diff = c.timeline_differentiator ]
    ELSE row

\* IntervalClassification.apply, as it acts on one row of a frame with the
\* given columns (the assignment through .loc is row by row).  A
\* classification without matcher matches nothing; a query naming a column
\* the frame does not have raises UndefinedVariableError, which apply
\* catches (warning, no row changed).  The column 'category' receives
\* self.category.value.display_name, a str; 'category_str' is not among
\* the assigned columns.
apply(c, columns, row) ==
    IF ~c.has_matcher THEN row
    ELSE IF ~(TargetingColumns(c.series_matcher) \subseteq columns) THEN row
    ELSE IF targeting_query(c.series_matcher, row)
    THEN [ row EXCEPT !.category = <<"str", c.category>>,
                      !.category_str_lower = Lower(c.category),
                      !.classification = c.name,
                      !.classification_str_lower = Lower(c.display_name),
                      !.timeline_diff = c.timeline_differentiator ]
    ELSE row

RECURSIVE ApplyFromUntilUndefined(_, _, _)
\* a plausible slip: the try encloses the loop over the classifications,
\* so the first query naming a column the batch does not have ends the
\* classification of the batch
ApplyFromUntilUndefined(n, columns, row) ==
    IF n > Len(IntervalClassifications) THEN row
    ELSE IF /\ IntervalClassifications[n].has_matcher
            /\ ~(TargetingColumns(IntervalClassifications[n].series_matcher) \subseteq columns)
    THEN row
    ELSE CHOOSE classified \in
             { ApplyFromUntilUndefined(n + 1, columns, applied) :
                 applied \in { apply(IntervalClassifications[n], columns, row) } } : TRUE

RECURSIVE ApplyFrom(_, _, _)
\* add_interval_dicts: "for classifier in IntervalClassifications:
\*     new_events = classifier.value.apply(new_events)", from rule n on,
\* followed for one row.  The row a rule leaves is bound as a value before
\* the next rule is applied to it.
ApplyFrom(n, columns, row) ==
    IF n > Len(IntervalClassifications) THEN row
    ELSE CHOOSE classified \in
             { ApplyFrom(n + 1, columns, applied) :
                 applied \in { apply(IntervalClassifications[n], columns, row) } } : TRUE

\* add_interval_dicts, lines 128-133: the frame of a batch with
\* classification = None and the required string columns set to ''
NewEvents(batch) ==
    [ i \in DOMAIN batch |->
        [ tempSource |-> batch[i].tempSource, ltype |-> batch[i].ltype,
          lkeys |-> batch[i].lkeys, ann |-> batch[i].ann,
          reason |-> batch[i].reason, message |-> batch[i].message,
          locator |-> batch[i].locator, from |-> batch[i].from,
          to |-> batch[i].to,
          classification |-> Null, category |-> <<"null", Null>>,
          category_str |-> "", category_str_lower |-> "",
          classification_str_lower |-> "", timeline_diff |-> "",
          timeline_id |-> <<Null, "">>, duration |-> 0 ] ]

----------------------------------------------------------------------------
(* analyzer/analysis.py: helpers on frames *)

\* the frame pd.DataFrame() of __init__: no column, no row
EmptyFrame == [ columns |-> {}, rows |-> << >> ]

\* the columns add_interval_dicts and apply add to a batch
DerivedColumns ==
    { <<"classification">>, <<"category">>, <<"category_str">>,
      <<"category_str_lower">>, <<"classification_str_lower">>,
      <<"timeline_diff">>, <<"timeline_id">>, <<"duration">> }

\* seconds_between(from, to): float(to - from) / NANOSECONDS_PER_SECOND.
\* With NaT on either side the difference is NaT, which has no
\* to_timedelta64: the bare except returns 0.0.
seconds_between(from, to) ==
    IF from = NoTime \/ to = NoTime THEN 0 ELSE to - from

\* Timestamp.floor('min')
FloorMinute(t) == t - (t % SecondsPerMinute)

\* Timestamp.ceil('min')
CeilMinute(t) ==
    IF t % SecondsPerMinute = 0 THEN t ELSE t - (t % SecondsPerMinute) + SecondsPerMinute

MinOf(S) == CHOOSE x \in S : \A y \in S : x <= y

MaxOf(S) == CHOOSE x \in S : \A y \in S : y <= x

\* timeline_id is locator + '-' + timeline_diff, kept as <<locator, diff>>.
\* The locators of the model are single letters, so the order of the
\* concatenated strings is the order of the pairs.
TimelineIdLess(a, b) ==
    \/ StrLess(a[1], b[1])
    \/ a[1] = b[1] /\ StrLess(a[2], b[2])

\* the order of sort_values(['category_str', 'timeline_id', 'from']);
\* NaT sorts last (na_position='last')
SortKeyLess(r, q) ==
    \/ StrLess(r.category_str, q.category_str)
    \/ /\ r.category_str = q.category_str
       /\ \/ TimelineIdLess(r.timeline_id, q.timeline_id)
          \/ /\ r.timeline_id = q.timeline_id
             /\ r.from # NoTime
             /\ (q.from = NoTime \/ r.from < q.from)

\* insert a row behind every row that is not greater (stable)
InsertSorted(sorted, r) ==
    LET n == Cardinality({ i \in DOMAIN sorted : ~SortKeyLess(r, sorted[i]) })
    IN  SubSeq(sorted, 1, n) \o << r >> \o SubSeq(sorted, n + 1, Len(sorted))

RECURSIVE sort_values(_)
\* DataFrame.sort_values on the three key columns, ascending, ties in frame order
sort_values(rows) ==
    IF Len(rows) = 0 THEN << >>
    ELSE InsertSorted(sort_values(SubSeq(rows, 1, Len(rows) - 1)), rows[Len(rows)])

RECURSIVE SortCategoryKeys(_)
\* the group keys of groupby('category_str'), ascending
SortCategoryKeys(S) ==
    IF S = {} THEN << >>
    ELSE LET m == CHOOSE x \in S : \A y \in S \ {x} : StrLess(x, y)
         IN  << m >> \o SortCategoryKeys(S \ {m})

RECURSIVE SortTimelineIds(_)
\* the group keys of groupby('timeline_id'), ascending
SortTimelineIds(S) ==
    IF S = {} THEN << >>
    ELSE LET m == CHOOSE x \in S : \A y \in S \ {x} : TimelineIdLess(x, y)
         IN  << m >> \o SortTimelineIds(S \ {m})

\* key_df[1]['from'].min() of a (key, timeline) pair
EarliestFrom(key_df) ==
    MinOf({ key_df[2][i].from : i \in DOMAIN key_df[2] } \ { NoTime })

\* insert a (key, timeline) pair behind every pair that does not start later
InsertByEarliestFrom(sorted, key_df) ==
    LET n == Cardinality({ i \in DOMAIN sorted : EarliestFrom(sorted[i]) <= EarliestFrom(key_df) })
    IN  SubSeq(sorted, 1, n) \o << key_df >> \o SubSeq(sorted, n + 1, Len(sorted))

RECURSIVE SortByEarliestFrom(_)
\* sorted(timelines_to_order, key=lambda key_df: key_df[1]['from'].min())
SortByEarliestFrom(timelines) ==
    IF Len(timelines) = 0 THEN << >>
    ELSE InsertByEarliestFrom(SortByEarliestFrom(SubSeq(timelines, 1, Len(timelines) - 1)),
                              timelines[Len(timelines)])

\* category_timelines_data.groupby('timeline_id') as a list of
\* (key, timeline) pairs, line 193-194
GroupByTimelineId(data, ids) ==
    [ k \in DOMAIN ids |-> << ids[k], SelectSeq(data, LAMBDA r : r.timeline_id = ids[k]) >> ]

\* the timelines of one category group, lines 193-197
OrderedTimelines(category, data) ==
    IF IntervalCategories[category[2]]
    THEN SortByEarliestFrom(GroupByTimelineId(data,
             SortTimelineIds({ data[i].timeline_id : i \in DOMAIN data })))
    ELSE GroupByTimelineId(data, SortTimelineIds({ data[i].timeline_id : i \in DOMAIN data }))

\* lines 198-199: the entries all_timelines receives for one category
KeyedByCategory(category_key, ordered_timelines) ==
    [ k \in DOMAIN ordered_timelines |->
        << << category_key, ordered_timelines[k][1] >>, ordered_timelines[k][2] >> ]

RECURSIVE TimelinesOfCategories(_, _, _)
\* the loop of rebuild_all_timelines over the category groups, lines 191-199.
\* `category` is the value of the 'category' column in the group's first
\* row; reading category.order_timelines_by_earliest_from from a str raises
\* AttributeError and leaves all_timelines as built so far.
TimelinesOfCategories(category_keys, rows, acc) ==
    IF Len(category_keys) = 0 THEN [ all_timelines |-> acc, raised |-> NoException ]
    ELSE LET data == SelectSeq(rows, LAMBDA r : r.category_str = Head(category_keys))
         IN  IF data[1].category[1] # "IntervalCategory"
             THEN [ all_timelines |-> acc, raised |-> "AttributeError" ]
             ELSE TimelinesOfCategories(Tail(category_keys), rows,
                      acc \o KeyedByCategory(Head(category_keys),
                                 OrderedTimelines(data[1].category, data)))

\* rebuild_all_timelines on the rows of a (non-empty) events_df: the new
\* absolute bounds, all_timelines and the exception raised.  min() and
\* max() skip NaT.
rebuild_all_timelines(rows) ==
    [ absolute_timeline_start |->
          FloorMinute(MinOf({ rows[i].from : i \in DOMAIN rows } \ { NoTime })),
      absolute_timeline_stop |->
          CeilMinute(MaxOf({ rows[i].to : i \in DOMAIN rows } \ { NoTime })) ]
    @@ TimelinesOfCategories(SortCategoryKeys({ rows[i].category_str : i \in DOMAIN rows }),
                             rows, << >>)

\* the (category_str, timeline_id) group keys of a frame
GroupKeys(rows) == { << rows[i].category_str, rows[i].timeline_id >> : i \in DOMAIN rows }

\* the loop of rebuild_selected_timelines_with and apply_collapse_filter:
\* the entries of all_timelines whose key is a group key of `rows`
RetainedTimelines(timelines, rows) ==
    SelectSeq(timelines, LAMBDA kv : kv[1] \in GroupKeys(rows))

\* update_selected_timeline_keys
TimelineKeys(timelines) == [ i \in DOMAIN timelines |-> timelines[i][1] ]

----------------------------------------------------------------------------
(* Filter queries (DataFrame.query).  A query is a small syntax tree:      *)
(*   <<"None">>, <<"''">>              no filter                         *)
(*   <<"==", column, value>>           `column` == "value"               *)
(*   <<"isnull", column>>              `column`.isnull()                 *)
(*   <<"not", q>>, <<"&", q, r>>, <<"|", q, r>>                        *)
(*   <<"contains", column, words>>     `column`.str.lower().str.contains *)
(*   <<"syntax error">>                an expression pandas cannot parse *)

\* Python truth of the query argument: None and '' are false
QueryGiven(query) == query[1] \notin { "None", "''" }

RECURSIVE QueryColumns(_)
\* the columns a query names
QueryColumns(query) ==
    CASE query[1] \in { "==", "isnull", "contains" } -> { query[2] }
      [] query[1] = "not" -> QueryColumns(query[2])
      [] query[1] \in { "&", "|" } -> QueryColumns(query[2]) \cup QueryColumns(query[3])
      [] OTHER -> {}

\* the value of a column in a row
ColumnValue(row, column) ==
    CASE column[1] = "tempSource" -> row.tempSource
      [] column[1] = "locator" -> row.locator
      [] column[1] = "message" -> row.message
      [] column[1] = "tempStructuredLocator.type" -> row.ltype
      [] column[1] = "tempStructuredMessage.reason" -> row.reason
      [] column[1] = "tempStructuredLocator.keys" -> get_locator_key(row, column[2])
      [] column[1] = "tempStructuredMessage.annotations" -> get_message_annotation(row, column[2])
      [] column[1] = "category_str" -> row.category_str
      [] column[1] = "category_str_lower" -> row.category_str_lower
      [] column[1] = "classification_str_lower" -> row.classification_str_lower
      [] column[1] = "timeline_diff" -> row.timeline_diff
      [] OTHER -> Null

RECURSIVE QueryMalformed(_)
\* an expression pandas cannot parse occurs in the query
QueryMalformed(query) ==
    CASE query[1] = "syntax error" -> TRUE
      [] query[1] = "not" -> QueryMalformed(query[2])
      [] query[1] \in { "&", "|" } -> QueryMalformed(query[2]) \/ QueryMalformed(query[3])
      [] OTHER -> FALSE

\* the words, given as the tuple of what spaces separate, of which `sub`
\* is a substring; no value of the model holds a space
SubstringPairs ==
    { <<"ab", "a">>, <<"ab", "b">>, <<"pod", "po">>, <<"podlog", "pod">>,
      <<"podlog", "po">>, <<"podlog", "log">>, <<"testfailed", "failed">> }

\* Series.str.lower().str.contains(words joined by spaces) for one value
ContainsWords(value, words) ==
    /\ value # Null
    /\ Len(words) = 1
    /\ \/ Lower(value) = words[1]
       \/ << Lower(value), words[1] >> \in SubstringPairs

RECURSIVE InvertsObjectSeries(_, _)
\* `not` is applied to the result of str.contains on a column that holds
\* a null: the result is of dtype object with NaN for the null, and
\* operator.invert on it raises TypeError.  The result of isnull, ==, &
\* and | is of dtype bool.
InvertsObjectSeries(query, rows) ==
    CASE query[1] = "not" ->
             \/ /\ query[2][1] = "contains"
                /\ \E i \in DOMAIN rows : ColumnValue(rows[i], query[2][2]) = Null
             \/ InvertsObjectSeries(query[2], rows)
      [] query[1] \in { "&", "|" } ->
             InvertsObjectSeries(query[2], rows) \/ InvertsObjectSeries(query[3], rows)
      [] OTHER -> FALSE

\* the exception DataFrame.query raises on a frame, NoException if none
QueryError(query, frame) ==
    IF QueryMalformed(query) THEN "SyntaxError"
    ELSE IF ~(QueryColumns(query) \subseteq frame.columns) THEN "UndefinedVariableError"
    ELSE IF InvertsObjectSeries(query, frame.rows) THEN "TypeError"
    ELSE NoException

\* the result of str.contains is NaN where the column is null.  As the
\* right operand of & or | a NaN counts as False; as the left operand it
\* makes the result NaN, which the operator then fills with False
\* (pandas.core.ops.logical_op).
ResultIsNaN(query, row) ==
    query[1] = "contains" /\ ColumnValue(row, query[2]) = Null

RECURSIVE QueryHolds(_, _)
\* the value of a (well-formed) query on a row
QueryHolds(query, row) ==
    CASE query[1] = "==" -> ColumnValue(row, query[2]) = query[3]
      [] query[1] = "isnull" -> ColumnValue(row, query[2]) = Null
      [] query[1] = "contains" -> ContainsWords(ColumnValue(row, query[2]), query[3])
      [] query[1] = "not" -> ~QueryHolds(query[2], row)
      [] query[1] = "&" -> QueryHolds(query[2], row) /\ QueryHolds(query[3], row)
      [] query[1] = "|" -> /\ ~ResultIsNaN(query[2], row)
                           /\ QueryHolds(query[2], row) \/ QueryHolds(query[3], row)
      [] OTHER -> FALSE

\* events_df.query(query): the rows on which the query holds, in frame order
QueryFrame(query, frame) ==
    [ columns |-> frame.columns,
      rows |-> SelectSeq(frame.rows, LAMBDA r : QueryHolds(query, r)) ]

----------------------------------------------------------------------------
(* ui/filtering_view.py: the filter dialog.                                *)
(*                                                                         *)
(* The text of a field, after lower() and strip(), is given as             *)
(* re.split(r'([&|()])', text) gives it, each part stripped: a sequence of *)
(* pieces, a piece being a delimiter <<"&">>, <<"|">>, <<"(">>, <<")">> or *)
(* the tuple of the words between two delimiters, << >> when there is      *)
(* nothing but spaces.  A text with one of = ' " . is not simple; its      *)
(* pieces are the parts of the expression the user wrote with @:           *)
(* <<"isnull">> for @.isnull(), <<"contains", w>> for @.contains('w'),     *)
(* <<"==", v>> for @ == 'v', and the operators.                            *)
(*                                                                         *)
(* The query string is given as its sequence of tokens.                    *)

SimpleText(pieces) == [ simple |-> TRUE, pieces |-> pieces ]

ComplexText(pieces) == [ simple |-> FALSE, pieces |-> pieces ]

\* the text of a field nobody typed into: ' '
BlankText == SimpleText(<< >>)

\* FilteringFields.__init__: six fields holding ' '
BlankFieldSet == << BlankText, BlankText, BlankText, BlankText, BlankText, BlankText >>

\* the tokens of a query string
Operator(symbol) == [ t |-> symbol, column |-> << Null >>, arg |-> << >> ]

Contains(column, words) == [ t |-> "contains", column |-> column, arg |-> words ]

IsNull(column) == [ t |-> "isnull", column |-> column, arg |-> << >> ]

Equals(column, value) == [ t |-> "==", column |-> column, arg |-> << value >> ]

\* the fields of the dialog, FilteringView.__init__ line 245
FilteringFieldNames ==
    << "Category", "Classification", "Namespace", "Pod", "UID", "Message" >>

\* FilteringField.__init__: the column a field filters on
column_name(display_name) ==
    CASE Lower(display_name) \in { "category", "classification" } ->
             << IF Lower(display_name) = "category" THEN "category_str"
                ELSE "classification_str" >>
      [] Lower(display_name) = "message" -> << "tempStructuredMessage.humanMessage" >>
      [] OTHER -> << "tempStructuredLocator.keys", Lower(display_name) >>

\* str.lower() of the words of a piece
LowerWords(words) == [ i \in DOMAIN words |-> Lower(words[i]) ]

\* is_field_set, and `if not expression` of get_expression_component
is_field_set(text) ==
    \E i \in DOMAIN text.pieces : text.pieces[i] # << >>

\* a plausible slip: every piece that starts with the word `not` is taken
\* for the operator followed by a word
RECURSIVE SimpleExpressionNotPrefix(_, _)
SimpleExpressionNotPrefix(pieces, column) ==
    IF pieces = << >> THEN << >>
    ELSE LET substring == LowerWords(pieces[1])
         IN  ( IF substring = << >> THEN << >>
               ELSE IF Len(substring) = 1 /\ substring[1] \in { "&", "|", "not", ")", "(" }
               THEN << Operator(substring[1]) >>
               ELSE IF substring[1] = "not"
               THEN << Operator("not"), Contains(column, Tail(substring)) >>
               ELSE << Contains(column, substring) >> )
             \o SimpleExpressionNotPrefix(Tail(pieces), column)

RECURSIVE SimpleExpression(_, _)
\* get_expression_component, lines 38-49: the simplified syntax.  A piece
\* that is one of & | not ) ( is kept, every other piece becomes
\* @.contains('<piece>').
SimpleExpression(pieces, column) ==
    IF pieces = << >> THEN << >>
    ELSE LET substring == LowerWords(pieces[1])
         IN  ( IF substring = << >> THEN << >>
               ELSE IF Len(substring) = 1 /\ substring[1] \in { "&", "|", "not", ")", "(" }
               THEN << Operator(substring[1]) >>
               ELSE << Contains(column, substring) >> )
             \o SimpleExpression(Tail(pieces), column)

\* the tokens of an expression the user wrote in the full syntax, lowered
\* like the rest of the text
ComplexExpression(pieces, column) ==
    [ i \in DOMAIN pieces |->
        CASE pieces[i][1] = "isnull" -> IsNull(column)
          [] pieces[i][1] = "contains" -> Contains(column, << Lower(pieces[i][2]) >>)
          [] pieces[i][1] = "==" -> Equals(column, Lower(pieces[i][2]))
          [] OTHER -> Operator(pieces[i][1]) ]

\* a plausible slip: the expression is not guarded against null values
WithoutNullGuard(expression, column) == expression

\* get_expression_component, lines 51-53: an expression with contains( and
\* without isnull( becomes (not @.isnull()) & (expression)
WithNullGuard(expression, column) ==
    IF /\ \A i \in DOMAIN expression : expression[i].t # "isnull"
       /\ \E i \in DOMAIN expression : expression[i].t = "contains"
    THEN << Operator("("), Operator("not"), IsNull(column), Operator(")"),
            Operator("&"), Operator("(") >> \o expression \o << Operator(")") >>
    ELSE expression

\* FilteringField.get_expression_component for the field `display_name`
\* holding `text`; only called here for a field that is set
FieldExpression(display_name, text) ==
    WithNullGuard(IF text.simple
                  THEN SimpleExpression(text.pieces, column_name(display_name))
                  ELSE ComplexExpression(text.pieces, column_name(display_name)),
                  column_name(display_name))

RECURSIVE FieldsExpressionFrom(_, _)
\* FilteringFields.get_expression_component, lines 86-92, from field n on:
\* the expressions of the fields that are set, each in parentheses, joined
\* with &
FieldsExpressionFrom(n, field_set) ==
    IF n > Len(FilteringFieldNames) THEN << >>
    ELSE LET rest == FieldsExpressionFrom(n + 1, field_set)
         IN  IF ~is_field_set(field_set[n]) THEN rest
             ELSE << Operator("(") >>
                  \o FieldExpression(FilteringFieldNames[n], field_set[n])
                  \o << Operator(")") >>
                  \o (IF rest = << >> THEN << >> ELSE << Operator("&") >> \o rest)

\* FilteringFields.any_field_set
any_field_set(field_set) ==
    \E n \in DOMAIN field_set : is_field_set(field_set[n])

\* a plausible slip: the field sets are joined with & instead of |
RECURSIVE QueryTokensJoinedWithAnd(_)
QueryTokensJoinedWithAnd(field_sets) ==
    IF field_sets = << >> THEN << >>
    ELSE LET rest == QueryTokensJoinedWithAnd(Tail(field_sets))
         IN  IF ~any_field_set(field_sets[1]) THEN rest
             ELSE << Operator("(") >> \o FieldsExpressionFrom(1, field_sets[1])
                  \o << Operator(")") >>
                  \o (IF rest = << >> THEN << >> ELSE << Operator("&") >> \o rest)

RECURSIVE QueryTokens(_)
\* OrOfFilteringFields.get_query_string, lines 185-192: the expressions of
\* the field sets that have a field set, each in parentheses, joined
\* with |
QueryTokens(field_sets) ==
    IF field_sets = << >> THEN << >>
    ELSE LET rest == QueryTokens(Tail(field_sets))
         IN  IF ~any_field_set(field_sets[1]) THEN rest
             ELSE << Operator("(") >> \o FieldsExpressionFrom(1, field_sets[1])
                  \o << Operator(")") >>
                  \o (IF rest = << >> THEN << >> ELSE << Operator("|") >> \o rest)

(* DataFrame.query parses the string as a Python expression in which &    *)
(* stands for `and` and | for `or`: `not` binds tighter than &, & tighter  *)
(* than |.  A parse gives the syntax tree and the tokens left over; what   *)
(* the grammar does not derive is <<"syntax error">>.                      *)

ParseResult(tree, rest) == [ ok |-> TRUE, tree |-> tree, rest |-> rest ]

ParseFailure == [ ok |-> FALSE, tree |-> << "syntax error" >>, rest |-> << >> ]

RECURSIVE ParseOr(_)
RECURSIVE ParseAnd(_)
RECURSIVE ParseNot(_)

\* or_test: and_test ('or' and_test)*
ParseOr(tokens) ==
    LET left == ParseAnd(tokens)
    IN  IF ~left.ok THEN ParseFailure
        ELSE IF left.rest # << >> /\ left.rest[1].t = "|"
        THEN LET right == ParseOr(Tail(left.rest))
             IN  IF ~right.ok THEN ParseFailure
                 ELSE ParseResult(<< "|", left.tree, right.tree >>, right.rest)
        ELSE left

\* and_test: not_test ('and' not_test)*
ParseAnd(tokens) ==
    LET left == ParseNot(tokens)
    IN  IF ~left.ok THEN ParseFailure
        ELSE IF left.rest # << >> /\ left.rest[1].t = "&"
        THEN LET right == ParseAnd(Tail(left.rest))
             IN  IF ~right.ok THEN ParseFailure
                 ELSE ParseResult(<< "&", left.tree, right.tree >>, right.rest)
        ELSE left

\* not_test: 'not' not_test | atom, an atom being a test on the column or
\* an expression in parentheses
ParseNot(tokens) ==
    IF tokens = << >> THEN ParseFailure
    ELSE CASE tokens[1].t = "not" ->
                  LET operand == ParseNot(Tail(tokens))
                  IN  IF ~operand.ok THEN ParseFailure
                      ELSE ParseResult(<< "not", operand.tree >>, operand.rest)
           [] tokens[1].t = "(" ->
                  LET inner == ParseOr(Tail(tokens))
                  IN  IF ~inner.ok THEN ParseFailure
                      ELSE IF inner.rest = << >> \/ inner.rest[1].t # ")" THEN ParseFailure
                      ELSE ParseResult(inner.tree, Tail(inner.rest))
           [] tokens[1].t = "contains" ->
                  ParseResult(<< "contains", tokens[1].column, tokens[1].arg >>, Tail(tokens))
           [] tokens[1].t = "isnull" ->
                  ParseResult(<< "isnull", tokens[1].column >>, Tail(tokens))
           [] tokens[1].t = "==" ->
                  ParseResult(<< "==", tokens[1].column, tokens[1].arg[1] >>, Tail(tokens))
           [] OTHER -> ParseFailure

\* the syntax tree of a query string
ParseQuery(tokens) ==
    LET parsed == ParseOr(tokens)
    IN  IF ~parsed.ok \/ parsed.rest # << >> THEN << "syntax error" >> ELSE parsed.tree

\* get_query_string, lines 182-183 and 194: None when no field is set,
\* otherwise the query string, given as what DataFrame.query makes of it
get_query_string(field_sets) ==
    IF \A n \in DOMAIN field_sets : ~any_field_set(field_sets[n])
    THEN << "None" >>
    ELSE ParseQuery(QueryTokens(field_sets))

----------------------------------------------------------------------------
(* analyzer/analysis.py: the methods of EventsInspector *)

\* the columns add_interval_dicts reads by name; a batch without one of
\* them raises KeyError (lines 140, 143, 146, 149)
RequiredColumns ==
    { <<"locator">>, <<"to">>, <<"from">>, <<"tempStructuredMessage.reason">> }

\* add_interval_dicts, lines 140-143: timeline_id, and `to` := `from`
\* where `to` is null
WithTimelineId(row) ==
    [ row EXCEPT !.timeline_id = << row.locator, row.timeline_diff >>,
                 !.to = IF row.to = NoTime THEN row.from ELSE row.to ]

\* add_interval_dicts, line 154 (get_interval_duration)
WithDuration(row) ==
    [ row EXCEPT !.duration = seconds_between(row.from, row.to) ]

\* add_interval_dicts up to the call of add_intervals: the classified
\* frame of a batch without its DisruptionEnded rows, or the exception
\* raised on the way
PrepareBatch(batch) ==
    IF ~(RequiredColumns \subseteq Columns(batch))
    THEN [ raised |-> "KeyError", frame |-> EmptyFrame ]
    ELSE [ raised |-> NoException,
           frame |-> [ columns |-> Columns(batch) \cup DerivedColumns,
                       rows |-> SelectSeq(
                           [ i \in DOMAIN batch |->
                               WithDuration(WithTimelineId(
                                   ApplyFrom(1, Columns(batch), NewEvents(batch)[i]))) ],
                           LAMBDA r : r.reason # "DisruptionEnded") ] ]

\* set_filter_query, lines 221-222, once the query is evaluated:
\* last_filter_query is recorded, and rebuild_selected_timelines_with
\* raises KeyError from groupby when the selected frame has no column
\* 'category_str'
rebuild_selected_timelines_with(selected, query, timelines, before) ==
    IF <<"category_str">> \notin selected.columns
    THEN [ before EXCEPT !.selected_rows = selected,
                         !.last_filter_query = query,
                         !.raised = "KeyError" ]
    ELSE [ selected_rows |-> selected,
           last_filter_query |-> query,
           selected_timelines |-> RetainedTimelines(timelines, selected.rows),
           selected_timeline_keys |-> TimelineKeys(RetainedTimelines(timelines, selected.rows)),
           raised |-> NoException ]

\* a plausible slip: last_filter_query is recorded before the query is evaluated
set_filter_query_recording_first(query, events, timelines, before) ==
    IF ~QueryGiven(query)
    THEN rebuild_selected_timelines_with(events, query, timelines, before)
    ELSE IF QueryError(query, events) # NoException
    THEN [ before EXCEPT !.last_filter_query = query, !.raised = QueryError(query, events) ]
    ELSE rebuild_selected_timelines_with(QueryFrame(query, events), query, timelines, before)

\* a plausible slip: the empty string is handed to DataFrame.query like any
\* other expression (`if query is not None:`), which rejects it
set_filter_query_evaluating_empty(query, events, timelines, before) ==
    IF query[1] = "None"
    THEN rebuild_selected_timelines_with(events, query, timelines, before)
    ELSE IF query[1] = "''" \/ QueryError(query, events) # NoException
    THEN [ before EXCEPT !.raised = IF query[1] = "''" THEN "ValueError"
                                    ELSE QueryError(query, events) ]
    ELSE rebuild_selected_timelines_with(QueryFrame(query, events), query, timelines, before)

\* set_filter_query(query) on the store `events` with the timelines
\* `timelines`; `before` holds selected_rows, last_filter_query,
\* selected_timelines and selected_timeline_keys as they are at the call.
\* A query that raises is re-raised before anything is assigned.
set_filter_query(query, events, timelines, before) ==
    IF ~QueryGiven(query)
    THEN rebuild_selected_timelines_with(events, query, timelines, before)
    ELSE IF QueryError(query, events) # NoException
    THEN [ before EXCEPT !.raised = QueryError(query, events) ]
    ELSE rebuild_selected_timelines_with(QueryFrame(query, events), query, timelines, before)

\* the fields set_filter_query reads and writes, as they are now
FilterFields ==
    [ selected_rows |-> selected_rows,
      last_filter_query |-> last_filter_query,
      selected_timelines |-> selected_timelines,
      selected_timeline_keys |-> selected_timeline_keys,
      raised |-> NoException ]

\* add_intervals, lines 165-169, after rebuild_all_timelines returned
\* `rebuilt` for the store `combined`: the zoom window is reset and the
\* last filter re-applied, unless rebuild_all_timelines raised
AfterRebuild(combined, rebuilt) ==
    [ events_df |-> combined,
      absolute_timeline_start |-> rebuilt.absolute_timeline_start,
      absolute_timeline_stop |-> rebuilt.absolute_timeline_stop,
      all_timelines |-> rebuilt.all_timelines ]
    @@ IF rebuilt.raised # NoException
       THEN [ zoom_timeline_start |-> zoom_timeline_start,
              zoom_timeline_stop |-> zoom_timeline_stop,
              filter |-> [ FilterFields EXCEPT !.raised = rebuilt.raised ] ]
       ELSE [ zoom_timeline_start |-> rebuilt.absolute_timeline_start,
              zoom_timeline_stop |-> rebuilt.absolute_timeline_stop,
              filter |-> set_filter_query(last_filter_query, combined, rebuilt.all_timelines,
                             [ FilterFields EXCEPT !.selected_rows = combined ]) ]

\* add_intervals, lines 158-163, for the concatenated and sorted store
AfterSort(combined) ==
    AfterRebuild(combined, rebuild_all_timelines(combined.rows))

\* a plausible slip: the new batch replaces the store instead of joining it
add_intervals_replacing(new_events) ==
    AfterSort([ columns |-> new_events.columns, rows |-> sort_values(new_events.rows) ])

\* a plausible slip: the absolute bounds are taken from the new batch only
add_intervals_bounds_of_batch(new_events) ==
    AfterRebuild([ columns |-> events_df.columns \cup new_events.columns,
                   rows |-> sort_values(events_df.rows \o new_events.rows) ],
                 rebuild_all_timelines(new_events.rows))

\* add_intervals(new_events): concat, sort, rebuild_all_timelines, reset of
\* the zoom window, re-application of the last filter.  The exception the
\* method leaves with, if any, is filter.raised.
add_intervals(new_events) ==
    AfterSort([ columns |-> events_df.columns \cup new_events.columns,
                rows |-> sort_values(events_df.rows \o new_events.rows) ])

\* a plausible slip: the window is clamped to the bounds without the shift
\* that preserves its length (the clamp of viewer/analysis.py)
ZoomWindowShrinking(from_dt, to_dt) ==
    LET lo == IF from_dt > to_dt THEN to_dt ELSE from_dt
        hi0 == IF from_dt > to_dt THEN from_dt ELSE to_dt
        hi == IF hi0 - lo < MinZoomSeconds THEN lo + MinZoomSeconds ELSE hi0
    IN  << IF lo < absolute_timeline_start THEN absolute_timeline_start ELSE lo,
           IF hi > absolute_timeline_stop THEN absolute_timeline_stop ELSE hi >>

\* a plausible slip: after the backward shift the start is not clamped again
ZoomWindowWithoutReclamp(from_dt, to_dt) ==
    LET lo == IF from_dt > to_dt THEN to_dt ELSE from_dt
        hi0 == IF from_dt > to_dt THEN from_dt ELSE to_dt
        hi == IF hi0 - lo < MinZoomSeconds THEN lo + MinZoomSeconds ELSE hi0
        desired_visible_timedelta == hi - lo
        lo1 == IF lo < absolute_timeline_start THEN absolute_timeline_start ELSE lo
        hi1 == IF lo < absolute_timeline_start
               THEN absolute_timeline_start + desired_visible_timedelta ELSE hi
    IN  IF hi1 > absolute_timeline_stop
        THEN << absolute_timeline_stop - desired_visible_timedelta, absolute_timeline_stop >>
        ELSE << lo1, hi1 >>

\* a plausible slip: the 10 second floor is applied to what is left of the
\* request after the clamp to the bounds
ZoomWindowFloorAfterClamp(from_dt, to_dt) ==
    LET lo == IF from_dt > to_dt THEN to_dt ELSE from_dt
        hi == IF from_dt > to_dt THEN from_dt ELSE to_dt
        lo1 == IF lo < absolute_timeline_start THEN absolute_timeline_start ELSE lo
        hi1 == IF hi > absolute_timeline_stop THEN absolute_timeline_stop ELSE hi
        hi2 == IF hi1 - lo1 < MinZoomSeconds THEN lo1 + MinZoomSeconds ELSE hi1
    IN  << lo1, IF hi2 > absolute_timeline_stop THEN absolute_timeline_stop ELSE hi2 >>

\* zoom_to_dates, lines 252-272: the window <<from_dt, to_dt>> it stores
ZoomWindow(from_dt, to_dt) ==
    LET lo == IF from_dt > to_dt THEN to_dt ELSE from_dt
        hi0 == IF from_dt > to_dt THEN from_dt ELSE to_dt
        hi == IF hi0 - lo < MinZoomSeconds THEN lo + MinZoomSeconds ELSE hi0
        desired_visible_timedelta == hi - lo
        lo1 == IF lo < absolute_timeline_start THEN absolute_timeline_start ELSE lo
        hi1 == IF lo < absolute_timeline_start
               THEN absolute_timeline_start + desired_visible_timedelta ELSE hi
        hi2 == IF hi1 > absolute_timeline_stop THEN absolute_timeline_stop ELSE hi1
        lo2 == IF hi1 > absolute_timeline_stop
               THEN (IF absolute_timeline_stop - desired_visible_timedelta < absolute_timeline_start
                     THEN absolute_timeline_start
                     ELSE absolute_timeline_stop - desired_visible_timedelta)
               ELSE lo1
    IN  << lo2, hi2 >>

\* apply_collapse_filter, line 235: the selected rows active in a window
RowsInWindow(rows, start, stop) ==
    SelectSeq(rows, LAMBDA r : /\ r.to # NoTime /\ r.to >= start
                               /\ r.from # NoTime /\ r.from <= stop)


\* on_zoom_resize(timeline_width_px) for the window <<start, stop>>:
\* calculate_pixels_per_second divides by current_zoom_timeline_seconds
\* and raises ZeroDivisionError when the window is empty
on_zoom_resize(timeline_width_px, start, stop) ==
    LET seconds == seconds_between(start, stop)
    IN  [ current_timeline_width |-> timeline_width_px,
          current_zoom_timeline_seconds |-> seconds,
          current_pixels_per_second_in_timeline |->
              IF seconds = 0 THEN current_pixels_per_second_in_timeline
              ELSE << timeline_width_px, seconds >>,
          raised |-> IF seconds = 0 THEN "ZeroDivisionError" ELSE NoException ]

\* left_offset_to_datetime(baseline_dt, left_offset_px, pixels_per_second):
\* baseline_dt + timedelta(microseconds=int(left_offset_px / pixels_per_second
\* * 1000000)), for pixels_per_second = width / seconds given as
\* <<width, seconds>>.  The instant is kept the way timedelta keeps it, as
\* whole seconds and microseconds.
left_offset_to_datetime(baseline_dt, left_offset_px, pixels_per_second) ==
    [ seconds |-> baseline_dt
                      + (left_offset_px * pixels_per_second[2]) \div pixels_per_second[1],
      microseconds |->
          (((left_offset_px * pixels_per_second[2]) % pixels_per_second[1])
               * MicrosecondsPerSecond) \div pixels_per_second[1] ]

\* zoom_left_offset_to_datetime(left_offset_px)
zoom_left_offset_to_datetime(left_offset_px) ==
    left_offset_to_datetime(zoom_timeline_start, left_offset_px,
                            current_pixels_per_second_in_timeline)

\* left_offset_from_datetime(baseline_dt, position_dt, pixels_per_second):
\* seconds_between(baseline_dt, position_dt) * pixels_per_second, the
\* number of pixels (whole + micro / 1000000) / per_seconds
left_offset_from_datetime(baseline_dt, position_dt, pixels_per_second) ==
    [ whole |-> seconds_between(baseline_dt, position_dt.seconds) * pixels_per_second[1],
      micro |-> position_dt.microseconds * pixels_per_second[1],
      per_seconds |-> pixels_per_second[2] ]

----------------------------------------------------------------------------
(* Inputs *)

\* raw records the coordinator specification ingests
PodCreatedA ==
    RawRecord("PodState", "Pod", {<<"pod", "a">>}, {<<"reason", "Created">>},
              "Created", Null, "a", 65, 70)

AlertCriticalB ==
    RawRecord("Alert", "Alert", {}, {<<"severity", "critical">>},
              "Firing", Null, "b", 60, 60)

PathologicalA ==
    RawRecord("KubeEvent", "Pod", {<<"pod", "a">>},
              {<<"interesting", "true">>, <<"pathological", "true">>},
              "BackOff", Null, "a", 5, NoTime)

DisruptionEndedB ==
    RawRecord("Disruption", Null, {}, {}, "DisruptionEnded",
              DisruptionMessage, "b", 10, 20)

\* a record that runs for two hours
PodLongRunningA ==
    RawRecord("PodState", "Pod", {<<"pod", "a">>}, {<<"reason", "Created">>},
              "Created", Null, "a", 65, 7265)

\* the batches the coordinator specification ingests: single records, a
\* record without `to` next to one with it, a DisruptionEnded record next
\* to one that is kept, and a batch without the column 'to'
Batches ==
    { << PodCreatedA >>, << AlertCriticalB >>, << PathologicalA, PodCreatedA >>,
      << DisruptionEndedB, AlertCriticalB >>, << PathologicalA >> }

\* the batches of the zoom specification: absolute ranges of 0 seconds
\* (one instant on a minute boundary), 60 and 120 seconds and two hours
ZoomBatches ==
    { << AlertCriticalB >>, << PodCreatedA >>, << PathologicalA, PodCreatedA >>,
      << PodLongRunningA >> }

\* one hour and five seconds, in seconds
OneHour == 3600

FiveSeconds == 5

\* the request that starts an hour before the data and ends five seconds
\* into it
RequestsAcrossStart ==
    { << absolute_timeline_start - OneHour, absolute_timeline_start + FiveSeconds >> }

\* the instants zoom_to_dates is called with
CoordinatorInstants == { 8, 70 }

ZoomInstants == { -5, 8, 55, 125 }

\* the widths on_zoom_resize is called with
Widths == { 100 }

QueryNone == << "None" >>

QuerySourceAlert == << "==", <<"tempSource">>, "Alert" >>

QuerySyntaxError == << "syntax error" >>

\* the column FilteringField derives for the Classification field is not
\* a column of the store
QueryClassificationStr == << "==", <<"classification_str">>, "TestFailed" >>

\* the empty string, false in `if query:` like None
QueryEmpty == << "''" >>

Queries ==
    { QueryNone, QueryEmpty, QuerySourceAlert, QuerySyntaxError, QueryClassificationStr }

\* a call and its arguments; `exited` tells whether FilteringView.on_apply_click,
\* which makes the call set_filter_query, went on to on_exit()
Call(op, from_dt, to_dt, collapse, query, width, exited) ==
    [ op |-> op, from_dt |-> from_dt, to_dt |-> to_dt, collapse |-> collapse,
      query |-> query, width |-> width, exited |-> exited ]

\* ui/import_timeline_view.py: DownloadStatus.__init__.  The BytesIO
\* buffer is the sequence of the chunks written to it and its position.
\* a status message: its text and the megabytes it reports, 0 when it
\* reports none
Message(text, mb) == << text, mb >>

DownloadStatus ==
    [ message |-> Message("", 0), buffer |-> << >>, position |-> 0,
      exception |-> Null, complete |-> FALSE ]

INIT_STATUS_MESSAGE ==
    Message("On Linux, install xclip for Ctrl-V support. Enter URL and hit import.", 0)

\* a url as download_file takes it apart: what precedes '://' (Null when
\* the text has no '://') and the rest
Url(scheme, rest) == [ scheme |-> scheme, rest |-> rest ]

NoUrl == Url(Null, Null)

\* self.download_checker = None, ImportTimelineView.__init__ line 69
NoChecker == 0

\* the texts of the URL field on_import_click is called with
Urls == { Url("file", "/tmp/e2e-timelines.json"), Url(Null, "e2e-timelines.json"),
         Url("https", "host/e2e-timelines.json") }

----------------------------------------------------------------------------
(* The state machine *)

\* EventsInspector.__init__
Init ==
    /\ events_df = EmptyFrame
    /\ absolute_timeline_start = NowAtInit
    /\ absolute_timeline_stop = NowAtInit + InitSpanSeconds
    /\ zoom_timeline_start = NowAtInit
    /\ zoom_timeline_stop = NowAtInit + InitSpanSeconds
    /\ selected_rows = EmptyFrame
    /\ current_timeline_width = 0
    /\ current_pixels_per_second_in_timeline = << 0, 1 >>
    /\ current_zoom_timeline_seconds = 1
    /\ all_timelines = << >>
    /\ selected_timelines = << >>
    /\ selected_timeline_keys = << >>
    /\ last_filter_query = QueryNone
    /\ last_call = Call("__init__", 0, 0, FALSE, QueryNone, 0, FALSE)
    /\ raised = NoException
    /\ worker_pc = "not started"
    /\ worker_url = NoUrl
    /\ status_lock = "free"
    /\ status = DownloadStatus
    /\ checker_pc = "not scheduled"
    /\ status_area = INIT_STATUS_MESSAGE
    /\ loaded = << >>
    /\ or_fields_set = << BlankFieldSet >>
    /\ imports = << >>
    /\ download_checker = NoChecker

\* add_interval_dicts(intervals)
AddIntervalDicts(batch) ==
    /\ \/ Len(events_df.rows) + Len(batch) <= MaxStore
       \/ events_df.rows = << >> /\ Len(batch) <= MaxBatch
    /\ last_call' = Call("add_interval_dicts", 0, 0, FALSE, QueryNone, 0, FALSE)
    /\ \E prepared \in { PrepareBatch(batch) } :
          IF prepared.raised # NoException
          THEN /\ raised' = prepared.raised
               /\ UNCHANGED << events_df, absolute_timeline_start, absolute_timeline_stop,
                               zoom_timeline_start, zoom_timeline_stop, selected_rows,
                               all_timelines, selected_timelines, selected_timeline_keys,
                               last_filter_query >>
          ELSE /\ Len(prepared.frame.rows) > 0
               /\ \E added \in { add_intervals(prepared.frame) } :
                     /\ events_df' = added.events_df
                     /\ absolute_timeline_start' = added.absolute_timeline_start
                     /\ absolute_timeline_stop' = added.absolute_timeline_stop
                     /\ all_timelines' = added.all_timelines
                     /\ zoom_timeline_start' = added.zoom_timeline_start
                     /\ zoom_timeline_stop' = added.zoom_timeline_stop
                     /\ selected_rows' = added.filter.selected_rows
                     /\ last_filter_query' = added.filter.last_filter_query
                     /\ selected_timelines' = added.filter.selected_timelines
                     /\ selected_timeline_keys' = added.filter.selected_timeline_keys
                     /\ raised' = added.filter.raised
    /\ UNCHANGED << current_timeline_width, current_pixels_per_second_in_timeline,
                    current_zoom_timeline_seconds >>
    /\ UNCHANGED download_vars
    /\ UNCHANGED dialog_vars
    /\ UNCHANGED imports_vars

\* FilteringView.on_apply_click with the query string `query`:
\* set_filter_query(query), then on_exit() unless the call raised
SetFilterQuery(query) ==
    /\ \E result \in { set_filter_query(query, events_df, all_timelines, FilterFields) } :
          /\ last_call' = Call("set_filter_query", 0, 0, FALSE, query, 0,
                               result.raised = NoException)
          /\ selected_rows' = result.selected_rows
          /\ last_filter_query' = result.last_filter_query
          /\ selected_timelines' = result.selected_timelines
          /\ selected_timeline_keys' = result.selected_timeline_keys
          /\ raised' = result.raised
    /\ UNCHANGED << events_df, absolute_timeline_start, absolute_timeline_stop,
                    zoom_timeline_start, zoom_timeline_stop, all_timelines,
                    current_timeline_width, current_pixels_per_second_in_timeline,
                    current_zoom_timeline_seconds >>
    /\ UNCHANGED download_vars
    /\ UNCHANGED dialog_vars
    /\ UNCHANGED imports_vars

\* on_zoom_resize(timeline_width_px)
OnZoomResize(timeline_width_px) ==
    /\ last_call' = Call("on_zoom_resize", 0, 0, FALSE, QueryNone, timeline_width_px, FALSE)
    /\ \E resized \in { on_zoom_resize(timeline_width_px, zoom_timeline_start,
                                       zoom_timeline_stop) } :
          /\ current_timeline_width' = resized.current_timeline_width
          /\ current_zoom_timeline_seconds' = resized.current_zoom_timeline_seconds
          /\ current_pixels_per_second_in_timeline' =
                 resized.current_pixels_per_second_in_timeline
          /\ raised' = resized.raised
    /\ UNCHANGED << events_df, absolute_timeline_start, absolute_timeline_stop,
                    zoom_timeline_start, zoom_timeline_stop, selected_rows,
                    all_timelines, selected_timelines, selected_timeline_keys,
                    last_filter_query >>
    /\ UNCHANGED download_vars
    /\ UNCHANGED dialog_vars
    /\ UNCHANGED imports_vars

\* a plausible slip: every zoom selects all the rows of the store again
ZoomToDatesSelectingAll(from_dt, to_dt, refilter_based_on_date_range) ==
    /\ last_call' = Call("zoom_to_dates", from_dt, to_dt,
                         refilter_based_on_date_range, QueryNone, 0, FALSE)
    /\ \E window \in { ZoomWindow(from_dt, to_dt) } :
          /\ zoom_timeline_start' = window[1]
          /\ zoom_timeline_stop' = window[2]
          /\ \E resized \in { on_zoom_resize(current_timeline_width,
                                             window[1], window[2]) } :
                /\ current_timeline_width' = resized.current_timeline_width
                /\ current_zoom_timeline_seconds' =
                       resized.current_zoom_timeline_seconds
                /\ current_pixels_per_second_in_timeline' =
                       resized.current_pixels_per_second_in_timeline
                /\ raised' = resized.raised
    /\ selected_rows' = events_df
    /\ UNCHANGED << events_df, absolute_timeline_start, absolute_timeline_stop,
                    all_timelines, last_filter_query, selected_timelines,
                    selected_timeline_keys >>
    /\ UNCHANGED download_vars
    /\ UNCHANGED dialog_vars
    /\ UNCHANGED imports_vars

\* zoom_to_dates(from_dt, to_dt, refilter_based_on_date_range).
\* apply_collapse_filter reads df['to'] and raises KeyError on a frame
\* without columns, after the window is stored and before on_zoom_resize.
ZoomToDates(from_dt, to_dt, refilter_based_on_date_range) ==
    /\ last_call' = Call("zoom_to_dates", from_dt, to_dt,
                         refilter_based_on_date_range, QueryNone, 0, FALSE)
    /\ \E window \in { ZoomWindow(from_dt, to_dt) } :
          /\ zoom_timeline_start' = window[1]
          /\ zoom_timeline_stop' = window[2]
          /\ IF refilter_based_on_date_range /\ <<"to">> \notin selected_rows.columns
             THEN /\ raised' = "KeyError"
                  /\ UNCHANGED << selected_timelines, selected_timeline_keys,
                                  current_timeline_width, current_zoom_timeline_seconds,
                                  current_pixels_per_second_in_timeline >>
             ELSE /\ \E collapsed \in
                         { IF refilter_based_on_date_range
                           THEN RetainedTimelines(all_timelines,
                                    RowsInWindow(selected_rows.rows, window[1], window[2]))
                           ELSE selected_timelines } :
                        /\ selected_timelines' = collapsed
                        /\ selected_timeline_keys' = IF refilter_based_on_date_range
                                                     THEN TimelineKeys(collapsed)
                                                     ELSE selected_timeline_keys
                  /\ \E resized \in { on_zoom_resize(current_timeline_width,
                                                     window[1], window[2]) } :
                        /\ current_timeline_width' = resized.current_timeline_width
                        /\ current_zoom_timeline_seconds' =
                               resized.current_zoom_timeline_seconds
                        /\ current_pixels_per_second_in_timeline' =
                               resized.current_pixels_per_second_in_timeline
                        /\ raised' = resized.raised
    /\ UNCHANGED << events_df, absolute_timeline_start, absolute_timeline_stop,
                    selected_rows, all_timelines, last_filter_query >>
    /\ UNCHANGED download_vars
    /\ UNCHANGED dialog_vars
    /\ UNCHANGED imports_vars

\* main.py, process_keys_down, key R: reset the zoom, collapsing
ResetZoom == ZoomToDates(absolute_timeline_start, absolute_timeline_stop, TRUE)

Next ==
    \/ \E batch \in Batches : AddIntervalDicts(batch)
    \/ \E query \in Queries : SetFilterQuery(query)
    \/ \E width \in Widths : OnZoomResize(width)
    \/ \E from_dt \in CoordinatorInstants, to_dt \in CoordinatorInstants, collapse \in BOOLEAN :
           ZoomToDates(from_dt, to_dt, collapse)
    \/ ResetZoom

\* the inspector under load, filter, resize and zoom
Spec == Init /\ [][Next]_vars

NextZoom ==
    \/ \E batch \in ZoomBatches : AddIntervalDicts(batch)
    \/ \E width \in Widths : OnZoomResize(width)
    \/ \E from_dt \in ZoomInstants, to_dt \in ZoomInstants, collapse \in BOOLEAN :
           ZoomToDates(from_dt, to_dt, collapse)
    \/ \E request \in RequestsAcrossStart :
           ZoomToDates(request[1], request[2], FALSE)

\* the zoom window under load, resize and zoom requests of every shape
SpecZoom == Init /\ [][NextZoom]_vars

----------------------------------------------------------------------------
(* Classification of many kinds of record *)

ClassifyRecord(tempSource, ltype, lkeys, ann, message) ==
    RawRecord(tempSource, ltype, lkeys, ann, "Reason", message, "a", 5, 10)

InContainer == { <<"pod", "a">>, <<"container", "c">> }

ClassifyRecords ==
    { ClassifyRecord("KubeEvent", "Pod", {}, {<<"interesting", "true">>, <<"pathological", "true">>}, Null),
      ClassifyRecord("KubeEvent", "Pod", {}, {<<"interesting", "true">>}, Null),
      ClassifyRecord("KubeEvent", "Pod", {}, {<<"pathological", "true">>}, Null),
      ClassifyRecord("KubeEvent", "Pod", {}, {<<"interesting", "false">>}, Null),
      ClassifyRecord("KubeEvent", "Pod", {}, {<<"interesting", "true">>, <<"pathological", "false">>}, Null),
      ClassifyRecord("OperatorState", Null, {}, {<<"condition", "Available">>, <<"status", "true">>}, Null),
      ClassifyRecord("Alert", "Alert", {}, {<<"alertstate", "pending">>, <<"severity", "critical">>}, Null),
      ClassifyRecord("Alert", "Alert", {}, {<<"severity", "critical">>}, Null),
      ClassifyRecord("PodState", "Node", InContainer, {<<"reason", "NotReady">>}, Null),
      ClassifyRecord("PodState", "Pod", InContainer, {<<"reason", "NotReady">>}, Null),
      ClassifyRecord("PodState", "Pod", {<<"pod", "a">>}, {<<"reason", "Ready">>}, Null),
      ClassifyRecord("PodState", "Pod", InContainer, {<<"reason", "Ready">>}, Null),
      ClassifyRecord("PodLog", "Pod", {}, {<<"severity", "warning">>}, Null),
      ClassifyRecord("EtcdLog", Null, {}, {}, Null),
      ClassifyRecord("Disruption", Null, {}, {}, DisruptionMessage),
      ClassifyRecord("Disruption", Null, {}, {}, Null),
      ClassifyRecord("E2ETest", Null, {}, {<<"status", "Failed">>}, Null),
      ClassifyRecord("OperatorState", Null, {}, {<<"condition", "Available">>, <<"status", "false">>}, Null),
      ClassifyRecord("OperatorState", Null, {}, {<<"condition", "Degraded">>, <<"status", "false">>}, Null),
      ClassifyRecord("Alert", "Alert", {}, {<<"severity", "Critical">>}, Null),
      ClassifyRecord("E2ETest", Null, {}, {<<"status", "passed">>}, Null),
      ClassifyRecord("Unheard", Null, {}, {}, Null) }

\* a record that brings most columns into its batch
ManyColumns ==
    ClassifyRecord("PodState", "Node", InContainer,
        { <<"reason", "Scheduled">>, <<"severity", "info">>, <<"status", "true">>,
          <<"interesting", "false">>, <<"pathological", "false">>, <<"phase", "Drain">>,
          <<"condition", "Progressing">>, <<"alertstate", "firing">> },
        "pod scheduled")

\* a record whose `to` is earlier than its `from`
EndsBeforeStartB ==
    RawRecord("Alert", "Alert", {}, {<<"severity", "critical">>},
              "Firing", Null, "b", 70, 65)

\* a record without `from`
FromMissingA ==
    RawRecord("PodState", "Pod", {<<"pod", "a">>}, {<<"reason", "Scheduled">>},
              "Scheduled", Null, "a", NoTime, 70)

\* each record alone (its batch has only its own columns) and next to
\* the record with many columns; a record without `to`, a record that ends
\* before it starts, and a record without `from` next to a well-formed one
\* the three records of the scenario of two timelines, with T0 = 00:01:05:
\* pod a is created, pod a is ready five seconds later, and an alert
\* without locator keys fires in between
PodReadyA ==
    RawRecord("PodState", "Pod", {<<"pod", "a">>}, {<<"reason", "Ready">>},
              "Ready", Null, "a", 70, NoTime)

AlertCriticalNoKeys ==
    RawRecord("Alert", "Alert", {}, {<<"severity", "critical">>},
              Null, Null, "", 67, NoTime)

\* the scenario with the end of the first interval given, and as a batch
\* in which no record has a `to`
TwoTimelinesBatch == << PodCreatedA, PodReadyA, AlertCriticalNoKeys >>

TwoTimelinesBatchWithoutTo ==
    << [ PodCreatedA EXCEPT !.to = NoTime ], PodReadyA, AlertCriticalNoKeys >>

ClassifyBatches ==
    { << r >> : r \in ClassifyRecords } \cup { << r, ManyColumns >> : r \in ClassifyRecords }
    \cup { << PathologicalA, PodCreatedA >>, << EndsBeforeStartB >>,
           << FromMissingA, PodCreatedA >>, TwoTimelinesBatch, TwoTimelinesBatchWithoutTo }

NextClassify ==
    \E batch \in ClassifyBatches : AddIntervalDicts(batch)

\* ingestion and classification of batches of many kinds of record
SpecClassify == Init /\ [][NextClassify]_vars

----------------------------------------------------------------------------
(* The filter dialog over a store whose columns for the locator keys hold  *)
(* values in both cases, substrings of one another, and nulls              *)

\* records with the locator keys the dialog filters on
PodNamespacedC ==
    RawRecord("PodState", "Pod", {<<"pod", "AB">>, <<"namespace", "c">>},
              {<<"reason", "Created">>}, "Created", Null, "c", 62, 64)

PodCreatedB ==
    RawRecord("PodState", "Pod", {<<"pod", "b">>}, {<<"reason", "Created">>},
              "Created", Null, "b", 63, 64)

\* the batches of the dialog specification: a column `pod` without nulls
\* and no column `namespace`, and both columns with nulls
FilterBatches ==
    { << PodCreatedA, PodCreatedB >>,
      << PodNamespacedC, PodCreatedA, AlertCriticalB >> }

\* texts in the simplified syntax
TextOf(word) == SimpleText(<< << word >> >>)

TextNotParenthesized(word) ==
    SimpleText(<< << "not" >>, << "(" >>, << word >>, << ")" >> >>)

TextNotBare(word) == SimpleText(<< << "not", word >> >>)

TextOr(w, v) == SimpleText(<< << w >>, << "|" >>, << v >> >>)

TextAnd(w, v) == SimpleText(<< << w >>, << "&" >>, << v >> >>)

TextNotOfOr(w, v) ==
    SimpleText(<< << "not" >>, << "(" >>, << w >>, << "|" >>, << v >>, << ")" >> >>)

TextAndNotBare(w, v) == SimpleText(<< << w >>, << "&" >>, << "not", v >> >>)

TextUnbalanced(word) == SimpleText(<< << >>, << "(" >>, << word >> >>)

\* texts in the full syntax: @.isnull() and @.isnull() | @ == 'a'
TextIsNull == ComplexText(<< << "isnull" >> >>)

TextIsNullOrEquals(value) ==
    ComplexText(<< << "isnull" >>, << "|" >>, << "==", value >> >>)

\* the texts typed into the field Pod
PodTexts ==
    { TextOf("a"), TextOf("A"), TextNotParenthesized("a"), TextNotBare("a"),
      TextOr("a", "b"), TextAnd("a", "b"), TextNotOfOr("b", "ab"),
      TextAndNotBare("a", "b"), TextUnbalanced("a"), TextIsNull,
      TextIsNullOrEquals("a") }

\* a field set: the texts of the six fields, in the order of the dialog
FieldSet(category, classification, namespace, pod) ==
    << category, classification, namespace, pod, BlankText, BlankText >>

\* Category `pod`, alone and with Classification `not(failed)`
CategoryOnly == FieldSet(TextOf("pod"), BlankText, BlankText, BlankText)

PodNotFailed ==
    FieldSet(TextOf("pod"), TextNotParenthesized("failed"), BlankText, BlankText)

\* the field sets the user fills in: one field, two fields, the scenario
\* of category and classification, a field whose key no record has
FieldSetChoices ==
    { FieldSet(BlankText, BlankText, BlankText, text) : text \in PodTexts }
    \cup { BlankFieldSet,
           FieldSet(BlankText, BlankText, TextOf("c"), TextOf("a")),
           FieldSet(BlankText, BlankText, TextNotParenthesized("c"), TextOf("a")),
           CategoryOnly, PodNotFailed,
           << BlankText, BlankText, BlankText, BlankText, TextOf("a"), BlankText >> }

\* the field sets added with the button 'Add OR'
OrChoices ==
    { BlankFieldSet,
      FieldSet(BlankText, BlankText, BlankText, TextNotOfOr("b", "ab")) }

RECURSIVE DialogsOf(_)
\* the contents of a dialog of n field sets
DialogsOf(n) ==
    IF n = 1 THEN { << f >> : f \in FieldSetChoices }
    ELSE { Append(d, g) : d \in DialogsOf(n - 1), g \in OrChoices }

Dialogs == UNION { DialogsOf(n) : n \in 1..MaxFieldSets }

\* FilteringView.on_apply_click with the dialog holding `field_sets`:
\* persist_focused_values stores the texts, get_query_string builds the
\* query, set_filter_query applies it, and on_exit() follows unless the
\* call raised
OnApplyClick(field_sets) ==
    /\ or_fields_set' = field_sets
    /\ \E query \in { get_query_string(field_sets) } :
          \E result \in { set_filter_query(query, events_df, all_timelines, FilterFields) } :
             /\ last_call' = Call("on_apply_click", 0, 0, FALSE, query, 0,
                                  result.raised = NoException)
             /\ selected_rows' = result.selected_rows
             /\ last_filter_query' = result.last_filter_query
             /\ selected_timelines' = result.selected_timelines
             /\ selected_timeline_keys' = result.selected_timeline_keys
             /\ raised' = result.raised
    /\ UNCHANGED << events_df, absolute_timeline_start, absolute_timeline_stop,
                    zoom_timeline_start, zoom_timeline_stop, all_timelines,
                    current_timeline_width, current_pixels_per_second_in_timeline,
                    current_zoom_timeline_seconds >>
    /\ UNCHANGED download_vars
    /\ UNCHANGED imports_vars

NextFilter ==
    \/ \E batch \in FilterBatches : AddIntervalDicts(batch)
    \/ \E field_sets \in Dialogs : OnApplyClick(field_sets)

\* loads and filters built by the dialog
SpecFilter == Init /\ [][NextFilter]_vars

----------------------------------------------------------------------------
(* viewer/intervals.py: the per-record matcher of the viewer package *)

\* SimpleIntervalMatcher of viewer/intervals.py.  temp_source /
\* locator_type: the set of accepted values ({} = not given);
\* annotations_match: the dict as the sequence of its <<name, value>> items
\* in insertion order; message_contains: Null = not given.  No rule of the
\* table gives locator_keys_match, reason, cause or annotations_exist.
ViewerMatcher(temp_source, locator_type, locator_keys_exist, annotations_match, message_contains) ==
    [ temp_source |-> temp_source,
      locator_type |-> locator_type,
      locator_keys_exist |-> locator_keys_exist,
      annotations_match |-> annotations_match,
      message_contains |-> message_contains ]

NoViewerMatcher == ViewerMatcher({}, {}, {}, << >>, Null)

\* IntervalClassification of viewer/intervals.py: simple_series_matcher
\* (has_simple_matcher tells whether one was given) and series_matcher, of
\* which the table only has `lambda interval: True`
ViewerClassification(name, category, has_simple_matcher, matcher, series_matcher_given) ==
    [ name |-> name, category |-> category,
      has_simple_matcher |-> has_simple_matcher,
      simple_series_matcher |-> matcher,
      does_series_match |-> series_matcher_given ]

\* the Enum IntervalClassifications of viewer/intervals.py, in declaration
\* (= iteration) order
ViewerIntervalClassifications ==
    << ViewerClassification("PathologicalKnown", "KubeEvent", TRUE,
          ViewerMatcher({"KubeEvent"}, {}, {},
              << <<"interesting", "true">>, <<"pathological", "true">> >>, Null), FALSE),
       ViewerClassification("InterestingEvent", "KubeEvent", TRUE,
          ViewerMatcher({"KubeEvent"}, {}, {},
              << <<"interesting", "true">> >>, Null), FALSE),
       ViewerClassification("PathologicalNew", "KubeEvent", TRUE,
          ViewerMatcher({"KubeEvent"}, {}, {},
              << <<"pathological", "true">> >>, Null), FALSE),
       ViewerClassification("AlertPending", "Alert", TRUE,
          ViewerMatcher({"Alert"}, {}, {},
              << <<"pending", "true">> >>, Null), FALSE),
       ViewerClassification("AlertInfo", "Alert", TRUE,
          ViewerMatcher({"Alert"}, {}, {},
              << <<"severity", "info">> >>, Null), FALSE),
       ViewerClassification("AlertWarning", "Alert", TRUE,
          ViewerMatcher({"Alert"}, {}, {},
              << <<"severity", "warning">> >>, Null), FALSE),
       ViewerClassification("AlertCritical", "Alert", TRUE,
          ViewerMatcher({"Alert"}, {}, {},
              << <<"severity", "critical">> >>, Null), FALSE),
       ViewerClassification("OperatorUnavailable", "OperatorState", TRUE,
          ViewerMatcher({"OperatorState"}, {}, {},
              << <<"condition", "Available">>, <<"status", "false">> >>, Null), FALSE),
       ViewerClassification("OperatorDegraded", "OperatorState", TRUE,
          ViewerMatcher({"OperatorState"}, {}, {},
              << <<"condition", "Degraded">>, <<"status", "true">> >>, Null), FALSE),
       ViewerClassification("OperatorProgressing", "OperatorState", TRUE,
          ViewerMatcher({"OperatorState"}, {}, {},
              << <<"condition", "Progressing">>, <<"status", "true">> >>, Null), FALSE),
       ViewerClassification("NodeDrain", "NodeState", TRUE,
          ViewerMatcher({}, {"Node"}, {},
              << <<"phase", "Drain">> >>, Null), FALSE),
       ViewerClassification("NodeReboot", "NodeState", TRUE,
          ViewerMatcher({}, {"Node"}, {},
              << <<"phase", "Reboot">> >>, Null), FALSE),
       ViewerClassification("NodeOperatingSystemUpdate", "NodeState", TRUE,
          ViewerMatcher({}, {"Node"}, {},
              << <<"phase", "OperatingSystemUpdate">> >>, Null), FALSE),
       ViewerClassification("NodeUpdate", "NodeState", TRUE,
          ViewerMatcher({}, {"Node"}, {},
              << <<"reason", "NodeUpdate">> >>, Null), FALSE),
       ViewerClassification("NodeNotReady", "NodeState", TRUE,
          ViewerMatcher({}, {"Node"}, {},
              << <<"reason", "NotReady">> >>, Null), FALSE),
       ViewerClassification("TestPassed", "E2ETest", TRUE,
          ViewerMatcher({"E2ETest"}, {}, {},
              << <<"status", "Passed">> >>, Null), FALSE),
       ViewerClassification("TestSkipped", "E2ETest", TRUE,
          ViewerMatcher({"E2ETest"}, {}, {},
              << <<"status", "Skipped">> >>, Null), FALSE),
       ViewerClassification("TestFlaked", "E2ETest", TRUE,
          ViewerMatcher({"E2ETest"}, {}, {},
              << <<"status", "Flaked">> >>, Null), FALSE),
       ViewerClassification("TestFailed", "E2ETest", TRUE,
          ViewerMatcher({"E2ETest"}, {}, {},
              << <<"status", "Failed">> >>, Null), FALSE),
       ViewerClassification("PodCreated", "Pod", TRUE,
          ViewerMatcher({"PodState"}, {}, {},
              << <<"reason", "Created">> >>, Null), FALSE),
       ViewerClassification("PodScheduled", "Pod", TRUE,
          ViewerMatcher({"PodState"}, {}, {},
              << <<"reason", "Scheduled">> >>, Null), FALSE),
       ViewerClassification("PodTerminating", "Pod", TRUE,
          ViewerMatcher({"PodState"}, {}, {},
              << <<"reason", "GracefulDelete">> >>, Null), FALSE),
       ViewerClassification("ContainerWait", "Pod", TRUE,
          ViewerMatcher({"PodState"}, {}, {"container"},
              << <<"reason", "ContainerWait">> >>, Null), FALSE),
       ViewerClassification("ContainerStart", "Pod", TRUE,
          ViewerMatcher({"PodState"}, {}, {"container"},
              << <<"reason", "ContainerStart">> >>, Null), FALSE),
       ViewerClassification("ContainerNotReady", "Pod", TRUE,
          ViewerMatcher({"PodState"}, {}, {"container"},
              << <<"reason", "NotReady">> >>, Null), FALSE),
       ViewerClassification("ContainerReady", "Pod", TRUE,
          ViewerMatcher({"PodState"}, {}, {"container"},
              << <<"reason", "Ready">> >>, Null), FALSE),
       ViewerClassification("ContainerReadinessFailed", "Pod", TRUE,
          ViewerMatcher({"PodState"}, {}, {"container"},
              << <<"reason", "ReadinessFailed">> >>, Null), FALSE),
       ViewerClassification("ContainerReadinessErrored", "Pod", TRUE,
          ViewerMatcher({"PodState"}, {}, {"container"},
              << <<"reason", "ReadinessErrored">> >>, Null), FALSE),
       ViewerClassification("StartupProbeFailed", "Pod", TRUE,
          ViewerMatcher({"PodState"}, {}, {},
              << <<"reason", "StartupProbeFailed">> >>, Null), FALSE),
       ViewerClassification("CIClusterDisruption", "Disruption", TRUE,
          ViewerMatcher({"Disruption"}, {}, {},
              << >>, ClusterRunningTests), FALSE),
       ViewerClassification("Disruption", "Disruption", TRUE,
          ViewerMatcher({"Disruption"}, {}, {},
              << >>, Null), FALSE),
       ViewerClassification("Degraded", "ClusterState", FALSE, NoViewerMatcher, FALSE),
       ViewerClassification("Upgradeable", "ClusterState", FALSE, NoViewerMatcher, FALSE),
       ViewerClassification("StatusFalse", "ClusterState", FALSE, NoViewerMatcher, FALSE),
       ViewerClassification("StatusUnknown", "ClusterState", FALSE, NoViewerMatcher, FALSE),
       ViewerClassification("PodLogWarning", "PodLog", TRUE,
          ViewerMatcher({"EtcdLog", "PodLog"}, {}, {},
              << <<"severity", "warning">> >>, Null), FALSE),
       ViewerClassification("PodLogError", "PodLog", TRUE,
          ViewerMatcher({"EtcdLog", "PodLog"}, {}, {},
              << <<"severity", "error">> >>, Null), FALSE),
       ViewerClassification("PodLogInfo", "PodLog", TRUE,
          ViewerMatcher({"EtcdLog", "PodLog"}, {}, {},
              << <<"severity", "info">> >>, Null), FALSE),
       ViewerClassification("PodLogOther", "PodLog", TRUE,
          ViewerMatcher({"EtcdLog", "PodLog"}, {}, {},
              << >>, Null), FALSE),
       ViewerClassification("UnknownClassification", "Unclassified", FALSE, NoViewerMatcher, TRUE) >>

\* required_value_matches inside SimpleIntervalMatcher.matches
required_value_matches(actual_value, required_value) ==
    (IF actual_value # Null THEN Lower(actual_value) ELSE actual_value)
        = (IF required_value # Null THEN Lower(required_value) ELSE required_value)

\* SimpleIntervalMatcher.matches of viewer/intervals.py.  The loop over
\* annotations_match returns from its first iteration.
matches(m, interval) ==
    IF m.temp_source # {} /\ interval.tempSource \notin m.temp_source THEN FALSE
    ELSE IF m.locator_type # {} /\ interval.ltype \notin m.locator_type THEN FALSE
    ELSE IF \E k \in m.locator_keys_exist : get_locator_key(interval, k) = Null THEN FALSE
    ELSE IF /\ m.message_contains # Null
            /\ ~StrContains(interval.message, m.message_contains) THEN FALSE
    ELSE IF m.annotations_match # << >>
         THEN required_value_matches(
                  get_message_annotation(interval, m.annotations_match[1][1]),
                  m.annotations_match[1][2])
    ELSE TRUE

\* IntervalClassification.matches of viewer/intervals.py
classification_matches(c, interval) ==
    IF c.has_simple_matcher THEN matches(c.simple_series_matcher, interval)
    ELSE c.does_series_match

\* get_interval_classification: the first classification, in enum order,
\* that matches the interval
get_interval_classification(interval) ==
    ViewerIntervalClassifications[
        CHOOSE n \in DOMAIN ViewerIntervalClassifications :
            /\ classification_matches(ViewerIntervalClassifications[n], interval)
            /\ \A k \in 1 .. n - 1 :
                   ~classification_matches(ViewerIntervalClassifications[k], interval) ]

----------------------------------------------------------------------------
(* ui/import_timeline_view.py: download_file on the worker thread and      *)
(* check_download on the UI thread.  Each statement that reads or writes   *)
(* the shared DownloadStatus is a step of its own; `with status_lock:` is  *)
(* a step that waits for the lock and a step that gives it back.           *)

\* download_file, lines 30-34: the local path the url names, Null for a
\* remote url
FilePath(url) ==
    IF url.scheme = "file" THEN url.rest
    ELSE IF url.scheme = Null THEN url.rest
    ELSE Null

\* on_import_click: a lock, a status and a thread are created, the thread
\* is started and check_download is scheduled
OnImportClick(url) ==
    /\ worker_pc = "not started"
    /\ worker_pc' = "try"
    /\ worker_url' = url
    /\ status_lock' = "free"
    /\ status' = DownloadStatus
    /\ checker_pc' = "scheduled"
    /\ UNCHANGED << status_area, loaded >>
    /\ UNCHANGED inspector_vars
    /\ UNCHANGED dialog_vars
    /\ UNCHANGED imports_vars

\* download_file, lines 36-43: open(file_path) or requests.get(url) and
\* raise_for_status(); either may raise
WorkerTry(raises) ==
    /\ worker_pc = "try"
    /\ worker_pc' = IF raises THEN "except: with status_lock"
                    ELSE IF FilePath(worker_url) # Null THEN "file: with status_lock"
                    ELSE "for chunk"
    /\ UNCHANGED << worker_url, status_lock, status, checker_pc, status_area, loaded >>
    /\ UNCHANGED inspector_vars
    /\ UNCHANGED dialog_vars
    /\ UNCHANGED imports_vars

\* line 45: response.iter_content delivers a chunk, ends, or raises
WorkerIterate(outcome) ==
    /\ worker_pc = "for chunk"
    /\ outcome = "chunk" => Len(status.buffer) < MaxChunks
    /\ worker_pc' = CASE outcome = "chunk" -> "chunk: with status_lock"
                      [] outcome = "end" -> "finally: with status_lock"
                      [] outcome = "raise" -> "except: with status_lock"
    /\ UNCHANGED << worker_url, status_lock, status, checker_pc, status_area, loaded >>
    /\ UNCHANGED inspector_vars
    /\ UNCHANGED dialog_vars
    /\ UNCHANGED imports_vars

\* the statement that follows the acquisition of the lock at lines 38,
\* 49, 54 and 58
AfterAcquire(pc) ==
    CASE pc = "file: with status_lock" -> "file: message"
      [] pc = "chunk: with status_lock" -> "chunk: write"
      [] pc = "except: with status_lock" -> "except: exception"
      [] pc = "finally: with status_lock" -> "finally: complete"

\* `with status_lock:` on the worker thread
WorkerAcquire ==
    /\ worker_pc \in { "file: with status_lock", "chunk: with status_lock",
                       "except: with status_lock", "finally: with status_lock" }
    /\ status_lock = "free"
    /\ status_lock' = "worker"
    /\ worker_pc' = AfterAcquire(worker_pc)
    /\ UNCHANGED << worker_url, status, checker_pc, status_area, loaded >>
    /\ UNCHANGED inspector_vars
    /\ UNCHANGED dialog_vars
    /\ UNCHANGED imports_vars

\* line 39
WorkerFileMessage ==
    /\ worker_pc = "file: message"
    /\ status' = [ status EXCEPT !.message = Message("Reading local file..", 0) ]
    /\ worker_pc' = "file: buffer"
    /\ UNCHANGED << worker_url, status_lock, checker_pc, status_area, loaded >>
    /\ UNCHANGED inspector_vars
    /\ UNCHANGED dialog_vars
    /\ UNCHANGED imports_vars

\* line 40: status.buffer = io.BytesIO(fh.read()); when read() raises the
\* exception leaves the `with` block, which gives the lock back
WorkerFileBuffer(raises) ==
    /\ worker_pc = "file: buffer"
    /\ IF raises
       THEN /\ worker_pc' = "except: with status_lock"
            /\ status_lock' = "free"
            /\ UNCHANGED status
       ELSE /\ status' = [ status EXCEPT !.buffer = << "file" >>, !.position = 0 ]
            /\ worker_pc' = "file: release"
            /\ UNCHANGED status_lock
    /\ UNCHANGED << worker_url, checker_pc, status_area, loaded >>
    /\ UNCHANGED inspector_vars
    /\ UNCHANGED dialog_vars
    /\ UNCHANGED imports_vars

\* line 50: status.buffer.write(chunk)
WorkerChunkWrite ==
    /\ worker_pc = "chunk: write"
    /\ status' = [ status EXCEPT !.buffer = Append(@, "chunk"),
                                 !.position = Len(status.buffer) + 1 ]
    /\ worker_pc' = "chunk: message"
    /\ UNCHANGED << worker_url, status_lock, checker_pc, status_area, loaded >>
    /\ UNCHANGED inspector_vars
    /\ UNCHANGED dialog_vars
    /\ UNCHANGED imports_vars

\* line 51
WorkerChunkMessage ==
    /\ worker_pc = "chunk: message"
    /\ status' = [ status EXCEPT !.message = Message("Downloading..", Len(status.buffer)) ]
    /\ worker_pc' = "chunk: release"
    /\ UNCHANGED << worker_url, status_lock, checker_pc, status_area, loaded >>
    /\ UNCHANGED inspector_vars
    /\ UNCHANGED dialog_vars
    /\ UNCHANGED imports_vars

\* line 55
WorkerException ==
    /\ worker_pc = "except: exception"
    /\ status' = [ status EXCEPT !.exception = "Exception" ]
    /\ worker_pc' = "except: release"
    /\ UNCHANGED << worker_url, status_lock, checker_pc, status_area, loaded >>
    /\ UNCHANGED inspector_vars
    /\ UNCHANGED dialog_vars
    /\ UNCHANGED imports_vars

\* line 59
WorkerComplete ==
    /\ worker_pc = "finally: complete"
    /\ status' = [ status EXCEPT !.complete = TRUE ]
    /\ worker_pc' = "finally: seek"
    /\ UNCHANGED << worker_url, status_lock, checker_pc, status_area, loaded >>
    /\ UNCHANGED inspector_vars
    /\ UNCHANGED dialog_vars
    /\ UNCHANGED imports_vars

\* line 60
WorkerSeek ==
    /\ worker_pc = "finally: seek"
    /\ status' = [ status EXCEPT !.position = 0 ]
    /\ worker_pc' = "finally: release"
    /\ UNCHANGED << worker_url, status_lock, checker_pc, status_area, loaded >>
    /\ UNCHANGED inspector_vars
    /\ UNCHANGED dialog_vars
    /\ UNCHANGED imports_vars

\* a plausible slip: complete is set before the handler of the exception
\* has run, so the worker takes the lock once more after it
AfterReleaseLockAgain(pc) ==
    CASE pc = "file: release" -> "finally: with status_lock"
      [] pc = "chunk: release" -> "for chunk"
      [] pc = "except: release" -> "done"
      [] pc = "finally: release" -> "except: with status_lock"

\* the statement that follows the end of a `with status_lock:` block
AfterRelease(pc) ==
    CASE pc = "file: release" -> "finally: with status_lock"
      [] pc = "chunk: release" -> "for chunk"
      [] pc = "except: release" -> "finally: with status_lock"
      [] pc = "finally: release" -> "done"

\* the end of a `with status_lock:` block on the worker thread
WorkerRelease ==
    /\ worker_pc \in { "file: release", "chunk: release", "except: release",
                       "finally: release" }
    /\ status_lock' = "free"
    /\ worker_pc' = AfterRelease(worker_pc)
    /\ UNCHANGED << worker_url, status, checker_pc, status_area, loaded >>
    /\ UNCHANGED inspector_vars
    /\ UNCHANGED dialog_vars
    /\ UNCHANGED imports_vars

\* check_download, line 150: the scheduled call takes the lock
CheckAcquire ==
    /\ checker_pc = "scheduled"
    /\ status_lock = "free"
    /\ status_lock' = "checker"
    /\ checker_pc' = "set_status_area"
    /\ UNCHANGED << worker_pc, worker_url, status, status_area, loaded >>
    /\ UNCHANGED inspector_vars
    /\ UNCHANGED dialog_vars
    /\ UNCHANGED imports_vars

\* line 151
CheckMessage ==
    /\ checker_pc = "set_status_area"
    /\ status_area' = status.message
    /\ checker_pc' = "if status.complete"
    /\ UNCHANGED << worker_pc, worker_url, status_lock, status, loaded >>
    /\ UNCHANGED inspector_vars
    /\ UNCHANGED dialog_vars
    /\ UNCHANGED imports_vars

\* a plausible slip: the exception of the worker is not looked at
CheckCompleteIgnoringException ==
    /\ checker_pc = "if status.complete"
    /\ IF ~status.complete
       THEN /\ checker_pc' = "scheduled"
            /\ status_lock' = "free"
       ELSE /\ checker_pc' = "load_data"
            /\ UNCHANGED status_lock
    /\ UNCHANGED << worker_pc, worker_url, status, status_area, loaded >>
    /\ UNCHANGED inspector_vars
    /\ UNCHANGED dialog_vars
    /\ UNCHANGED imports_vars

\* lines 152-153: the tests of status.complete and status.exception; when
\* the download is not complete the block ends and the lock is given back
CheckComplete ==
    /\ checker_pc = "if status.complete"
    /\ IF ~status.complete
       THEN /\ checker_pc' = "scheduled"
            /\ status_lock' = "free"
       ELSE /\ checker_pc' = IF status.exception = Null THEN "load_data" ELSE "join"
            /\ UNCHANGED status_lock
    /\ UNCHANGED << worker_pc, worker_url, status, status_area, loaded >>
    /\ UNCHANGED inspector_vars
    /\ UNCHANGED dialog_vars
    /\ UNCHANGED imports_vars

\* line 155: self.load_data(status.buffer).  load_data is the two-argument
\* lambda of main.py, line 1587; called with one argument it raises
\* TypeError, which leaves check_download through the `with` block: the
\* lock is given back, join and unschedule are not reached.
CheckLoadData ==
    /\ checker_pc = "load_data"
    /\ loaded' = Append(loaded, [ buffer |-> status.buffer, position |-> status.position ])
    /\ checker_pc' = "TypeError"
    /\ status_lock' = "free"
    /\ UNCHANGED << worker_pc, worker_url, status, status_area >>
    /\ UNCHANGED inspector_vars
    /\ UNCHANGED dialog_vars
    /\ UNCHANGED imports_vars

\* lines 157-158: download_thread.join() waits for the worker to end, then
\* the checker is unscheduled and the block ends
CheckJoin ==
    /\ checker_pc = "join"
    /\ worker_pc = "done"
    /\ checker_pc' = "unscheduled"
    /\ status_lock' = "free"
    /\ UNCHANGED << worker_pc, worker_url, status, status_area, loaded >>
    /\ UNCHANGED inspector_vars
    /\ UNCHANGED dialog_vars
    /\ UNCHANGED imports_vars

NextDownload ==
    \/ \E url \in Urls : OnImportClick(url)
    \/ \E raises \in BOOLEAN : WorkerTry(raises)
    \/ \E outcome \in { "chunk", "end", "raise" } : WorkerIterate(outcome)
    \/ WorkerAcquire
    \/ WorkerFileMessage
    \/ \E raises \in BOOLEAN : WorkerFileBuffer(raises)
    \/ WorkerChunkWrite
    \/ WorkerChunkMessage
    \/ WorkerException
    \/ WorkerComplete
    \/ WorkerSeek
    \/ WorkerRelease
    \/ CheckAcquire
    \/ CheckMessage
    \/ CheckComplete
    \/ CheckLoadData
    \/ CheckJoin

\* one import: the worker thread and the scheduled checker, interleaved
SpecDownload == Init /\ [][NextDownload]_vars

\* a statement of download_file
WorkerStep ==
    \/ \E raises \in BOOLEAN : WorkerTry(raises)
    \/ \E outcome \in { "chunk", "end", "raise" } : WorkerIterate(outcome)
    \/ WorkerAcquire
    \/ WorkerFileMessage
    \/ \E raises \in BOOLEAN : WorkerFileBuffer(raises)
    \/ WorkerChunkWrite
    \/ WorkerChunkMessage
    \/ WorkerException
    \/ WorkerComplete
    \/ WorkerSeek
    \/ WorkerRelease

\* a statement of check_download
CheckerStep ==
    \/ CheckAcquire
    \/ CheckMessage
    \/ CheckComplete
    \/ CheckLoadData
    \/ CheckJoin

\* one import under the scheduling of the program: open, requests.get and
\* iter_content return or raise; arcade calls the scheduled checker once
\* a second (arcade.schedule(self.download_checker, 1.0), line 168), which
\* holds the lock for the few statements of check_download, so a worker
\* that waits for the lock finds it free between two calls and is not
\* passed over for ever
SpecDownloadFair ==
    SpecDownload /\ SF_vars(WorkerStep) /\ WF_vars(CheckerStep)

(* Several imports.  on_import_click and check_download run on the UI     *)
(* thread, one call at a time; check_download holds the status_lock of    *)
(* its import from its first statement to its last, and download_file     *)
(* writes the status under that lock only, so each call of check_download *)
(* sees the download either before or after its `finally` block.  Every   *)
(* import has a lock and a DownloadStatus of its own; what the imports    *)
(* share is the attribute download_checker and the schedule of arcade.    *)

\* on_import_click: the thread started, the DownloadStatus created and the
\* checker scheduled for one click; `seen_complete` and `loads` record
\* what check_download did for this import
Import(url) ==
    [ url |-> url, thread |-> "running", complete |-> FALSE, exception |-> FALSE,
      checker |-> "scheduled", seen_complete |-> FALSE, loads |-> 0 ]

\* an exception that left check_download ends the event loop: nothing
\* runs on the UI thread any more
UIThreadRuns ==
    \A d \in DOMAIN imports : imports[d].checker # "TypeError"

\* on_import_click, lines 160-168
StartImport(url) ==
    /\ UIThreadRuns
    /\ Len(imports) < MaxImports
    /\ imports' = Append(imports, Import(url))
    /\ download_checker' = Len(imports) + 1
    /\ UNCHANGED inspector_vars
    /\ UNCHANGED download_vars
    /\ UNCHANGED dialog_vars

\* download_file of import d comes to its end: `finally` sets complete,
\* `except` has stored the exception if one was raised
DownloadEnds(d, raises) ==
    /\ d \in DOMAIN imports
    /\ imports[d].thread = "running"
    /\ imports' = [ imports EXCEPT ![d].thread = "ended",
                                   ![d].complete = TRUE,
                                   ![d].exception = raises ]
    /\ UNCHANGED download_checker
    /\ UNCHANGED inspector_vars
    /\ UNCHANGED download_vars
    /\ UNCHANGED dialog_vars

\* arcade.unschedule(self.download_checker), line 158
unschedule(scheduled) ==
    IF download_checker \in DOMAIN scheduled
    THEN [ scheduled EXCEPT ![download_checker].checker = "unscheduled" ]
    ELSE scheduled

\* check_download, lines 153-158, for a download that is complete: d is
\* the import the scheduled lambda was made for
check_complete(d, seen) ==
    IF ~imports[d].exception
    THEN [ seen EXCEPT ![d].loads = @ + 1, ![d].checker = "TypeError" ]
    ELSE unschedule(seen)

\* the scheduled lambda of import d is called: check_download, lines
\* 145-158
CheckDownload(d) ==
    /\ UIThreadRuns
    /\ d \in DOMAIN imports
    /\ imports[d].checker = "scheduled"
    /\ imports' = IF ~imports[d].complete THEN imports
                  ELSE check_complete(d, [ imports EXCEPT ![d].seen_complete = TRUE ])
    /\ UNCHANGED download_checker
    /\ UNCHANGED inspector_vars
    /\ UNCHANGED download_vars
    /\ UNCHANGED dialog_vars

NextImports ==
    \/ \E url \in Urls : StartImport(url)
    \/ \E d \in 1..MaxImports, raises \in BOOLEAN : DownloadEnds(d, raises)
    \/ \E d \in 1..MaxImports : CheckDownload(d)

\* imports started one after the other, also before the earlier ones end
SpecImports == Init /\ [][NextImports]_vars

----------------------------------------------------------------------------
(* Properties *)

C2_WindowInvariant ==
    /\ absolute_timeline_start <= zoom_timeline_start
    /\ zoom_timeline_start < zoom_timeline_stop
    /\ zoom_timeline_stop <= absolute_timeline_stop

C4_StoreOrdered ==
    \A i, j \in DOMAIN events_df.rows :
        i < j =>
            LET r == events_df.rows[i]
                q == events_df.rows[j]
            IN  ~ \/ StrLess(q.category[2], r.category[2])
                  \/ /\ q.category[2] = r.category[2]
                     /\ \/ TimelineIdLess(q.timeline_id, r.timeline_id)
                        \/ q.timeline_id = r.timeline_id /\ q.from < r.from

\* C5: every stored record carries the classification, and its category, of
\* the first rule in declaration order whose constraints all hold on it.
C5_FirstMatchWins ==
    \A i \in DOMAIN events_df.rows :
        LET row == events_df.rows[i]
            matching == { n \in DOMAIN IntervalClassifications :
                            /\ IntervalClassifications[n].has_matcher
                            /\ MatcherConstraintsHold(
                                   IntervalClassifications[n].series_matcher, row) }
            first == CHOOSE n \in matching : \A m \in matching : n <= m
        IN  /\ matching # {}
            /\ row.classification = IntervalClassifications[first].name
            /\ row.category[2] = IntervalClassifications[first].category

\* C5: a stored record on which three rules hold (PathologicalKnown,
\* InterestingEvent, PathologicalNew) besides the catch-all carries the
\* first of them
C5_SeveralRulesHold ==
    \E i \in DOMAIN events_df.rows :
        LET row == events_df.rows[i]
        IN  /\ row.classification = "PathologicalKnown"
            /\ Cardinality({ n \in DOMAIN IntervalClassifications :
                               /\ IntervalClassifications[n].has_matcher
                               /\ MatcherConstraintsHold(
                                      IntervalClassifications[n].series_matcher, row) }) >= 4

\* C6: every stored record has a classification and one category of the
\* category table; a record on which no specific rule holds is classified
\* by the catch-all rule into the category Unclassified.
C6_ClassificationTotal ==
    \A i \in DOMAIN events_df.rows :
        LET row == events_df.rows[i]
            specific == { n \in 1 .. Len(IntervalClassifications) - 1 :
                            /\ IntervalClassifications[n].has_matcher
                            /\ MatcherConstraintsHold(
                                   IntervalClassifications[n].series_matcher, row) }
        IN  /\ row.classification # Null
            /\ row.category[1] # "null"
            /\ row.category[2] \in DOMAIN IntervalCategories
            /\ specific = {} => /\ row.classification = "UnknownClassification"
                                /\ row.category[2] = "Unclassified"

\* C6: a stored record of a source no rule names, and a stored PodState
\* record without container key, both classified by the catch-all
C6_CaughtByCatchAll ==
    /\ \E i \in DOMAIN events_df.rows :
          /\ events_df.rows[i].tempSource = "Unheard"
          /\ events_df.rows[i].classification = "UnknownClassification"
          /\ events_df.rows[i].category[2] = "Unclassified"
    /\ \E i \in DOMAIN events_df.rows :
          /\ events_df.rows[i].tempSource = "PodState"
          /\ events_df.rows[i].classification = "UnknownClassification"

\* C7: after a filter is set, the intervals of the selected timelines are
\* exactly the records passing the filter; after a zoom with collapse,
\* exactly those of them that overlap the window.  No record is lost or
\* duplicated.
C7_GroupingComplete ==
    LET RECURSIVE IntervalsOf(_)
        IntervalsOf(timelines) ==
            IF Len(timelines) = 0 THEN << >>
            ELSE timelines[1][2] \o IntervalsOf(Tail(timelines))
        Count(rows, r) == Cardinality({ i \in DOMAIN rows : rows[i] = r })
        SameRows(a, b) ==
            /\ Len(a) = Len(b)
            /\ \A i \in DOMAIN a : Count(a, a[i]) = Count(b, a[i])
        shown == IntervalsOf(selected_timelines)
    IN  /\ (last_call.op = "set_filter_query" /\ raised = NoException)
               => SameRows(shown, selected_rows.rows)
        /\ (last_call.op = "zoom_to_dates" /\ last_call.collapse /\ raised = NoException)
               => SameRows(shown, RowsInWindow(selected_rows.rows,
                                               zoom_timeline_start, zoom_timeline_stop))

\* C8: after a zoom the exposed timeline keys are exactly the keys of the
\* buckets of the current store that hold a record passing the current
\* filter (and, if the zoom asked for collapse, overlapping the window).
C8_NoStaleTimelines ==
    (last_call.op = "zoom_to_dates" /\ raised = NoException)
        => LET passing == IF QueryGiven(last_filter_query)
                          THEN QueryFrame(last_filter_query, events_df).rows
                          ELSE events_df.rows
               visible == IF last_call.collapse
                          THEN RowsInWindow(passing, zoom_timeline_start, zoom_timeline_stop)
                          ELSE passing
           IN  /\ { selected_timeline_keys[k] : k \in DOMAIN selected_timeline_keys }
                      = GroupKeys(visible)
               /\ selected_timeline_keys = TimelineKeys(selected_timelines)

\* C9: a filter expression the query engine rejects raises to the caller,
\* on_apply_click then stays in the filter view, and the selected rows,
\* the last successful filter, the selected timelines and their keys and
\* the zoom window are what they were.
C9_MalformedFilterKeepsState ==
    [][ \A query \in Queries :
          ( /\ SetFilterQuery(query)
            /\ QueryGiven(query)
            /\ QueryError(query, events_df) # NoException )
              => /\ raised' = QueryError(query, events_df)
                 /\ ~last_call'.exited
                 /\ UNCHANGED << selected_rows, last_filter_query, selected_timelines,
                                 selected_timeline_keys, zoom_timeline_start,
                                 zoom_timeline_stop, events_df, all_timelines >> ]_vars

\* C9: a syntax error was raised on a loaded store while the filter set
\* before it is still the active one
C9_RejectedAfterValid ==
    /\ last_call.op = "set_filter_query"
    /\ last_call.query = QuerySyntaxError
    /\ raised = "SyntaxError"
    /\ ~last_call.exited
    /\ Len(events_df.rows) > 0
    /\ last_filter_query = QuerySourceAlert
    /\ Len(selected_rows.rows) < Len(events_df.rows)

\* C10: after a load that ingested records, the selected rows are the rows
\* of the whole store that satisfy the last successful filter (all rows
\* when there is none).
C10_LoadReappliesFilter ==
    (last_call.op = "add_interval_dicts" /\ raised # "KeyError")
        => selected_rows.rows = IF QueryGiven(last_filter_query)
                                THEN QueryFrame(last_filter_query, events_df).rows
                                ELSE events_df.rows

\* C11: immediately after a load that ingested records, the zoom window
\* is the absolute range of the combined store.
C11_LoadResetsZoom ==
    (last_call.op = "add_interval_dicts" /\ raised # "KeyError")
        => /\ zoom_timeline_start = absolute_timeline_start
           /\ zoom_timeline_stop = absolute_timeline_stop

\* C12: a load adds the accepted records of its batch to the store and
\* removes none (the store after the load holds, record by record, as many
\* copies as the store before plus the batch); set_filter_query,
\* zoom_to_dates and on_zoom_resize leave the store and the absolute
\* bounds as they are.
C12_AppendOnly ==
    [][ /\ \A batch \in Batches :
              AddIntervalDicts(batch) =>
                  \E accepted \in { PrepareBatch(batch).frame.rows } :
                      \A r \in { events_df.rows[i] : i \in DOMAIN events_df.rows }
                               \cup { accepted[i] : i \in DOMAIN accepted }
                               \cup { events_df'.rows[i] : i \in DOMAIN events_df'.rows } :
                          Cardinality({ i \in DOMAIN events_df'.rows : events_df'.rows[i] = r })
                              = Cardinality({ i \in DOMAIN events_df.rows : events_df.rows[i] = r })
                                + Cardinality({ i \in DOMAIN accepted : accepted[i] = r })
        /\ last_call'.op \in { "set_filter_query", "zoom_to_dates", "on_zoom_resize" }
              => UNCHANGED << events_df, absolute_timeline_start, absolute_timeline_stop >>
      ]_vars

\* C12: a store holding the record of one load and the record of a later
\* load, after a filter was set on it
C12_TwoLoadsThenFilter ==
    /\ last_call.op = "set_filter_query"
    /\ last_call.query = QuerySourceAlert
    /\ raised = NoException
    /\ \E i \in DOMAIN events_df.rows : events_df.rows[i].tempSource = "PodState"
    /\ \E i \in DOMAIN events_df.rows : events_df.rows[i].tempSource = "Alert"
    /\ Len(selected_rows.rows) = 1

C15_CollapseKeepsOverlapping ==
    (last_call.op = "zoom_to_dates" /\ last_call.collapse /\ raised = NoException)
        => \A key \in GroupKeys(events_df.rows) :
               /\ (\E k \in DOMAIN selected_timelines : selected_timelines[k][1] = key)
                      <=> \E i \in DOMAIN selected_rows.rows :
                              /\ << selected_rows.rows[i].category_str,
                                    selected_rows.rows[i].timeline_id >> = key
                              /\ selected_rows.rows[i].to >= zoom_timeline_start
                              /\ selected_rows.rows[i].from <= zoom_timeline_stop
               /\ \A k \in DOMAIN selected_timelines :
                      selected_timelines[k][1] = key
                          => selected_timelines[k][2]
                                 = SelectSeq(events_df.rows,
                                       LAMBDA r : << r.category_str, r.timeline_id >> = key)

\* C16: all_timelines lists the timelines of every category of the store,
\* those of a category with order_timelines_by_earliest_from (E2ETest) in
\* ascending order of their earliest `from`, those of any other category
\* in ascending order of the timeline key.
C16_BucketOrder ==
    \A category \in { events_df.rows[i].category[2] : i \in DOMAIN events_df.rows } :
        \E buckets \in { SelectSeq(all_timelines,
                             LAMBDA kv : \E i \in DOMAIN kv[2] : kv[2][i].category[2] = category) } :
            /\ { buckets[k][1][2] : k \in DOMAIN buckets }
                   = { events_df.rows[i].timeline_id :
                         i \in { j \in DOMAIN events_df.rows :
                                   events_df.rows[j].category[2] = category } }
            /\ \A k, l \in DOMAIN buckets :
                   k < l => IF IntervalCategories[category]
                            THEN \E e \in DOMAIN buckets[k][2] : \A f \in DOMAIN buckets[l][2] :
                                     buckets[k][2][e].from <= buckets[l][2][f].from
                            ELSE TimelineIdLess(buckets[k][1][2], buckets[l][1][2])

\* C18: for every pixel offset p of a visible width > 0, converting p to
\* an instant (zoom_left_offset_to_datetime) and the instant back to an
\* offset (left_offset_from_datetime) succeeds and gives an offset less
\* than one pixel away from p.
C18_PixelRoundTrip ==
    current_timeline_width > 0
        => \A p \in 0 .. current_timeline_width - 1 :
               /\ current_pixels_per_second_in_timeline[1] # 0
               /\ \E back \in { left_offset_from_datetime(zoom_timeline_start,
                                    zoom_left_offset_to_datetime(p),
                                    current_pixels_per_second_in_timeline) } :
                      \* p - back < 1 and back - p < 1, both sides multiplied by
                      \* per_seconds * 1000000
                      /\ p * back.per_seconds - back.whole - back.per_seconds
                             <= (back.micro - 1) \div MicrosecondsPerSecond
                      /\ back.micro \div MicrosecondsPerSecond
                             < p * back.per_seconds - back.whole + back.per_seconds

\* C19: whenever on_zoom_resize has run (on its own or at the end of
\* zoom_to_dates) the divisor current_zoom_timeline_seconds is > 0, no
\* ZeroDivisionError was raised, and a window with zoom_stop = zoom_start
\* counts as 10 seconds.
C19_NoDivisionByZero ==
    (last_call.op \in { "on_zoom_resize", "zoom_to_dates" } /\ raised # "KeyError")
        => /\ raised # "ZeroDivisionError"
           /\ current_zoom_timeline_seconds > 0
           /\ zoom_timeline_stop = zoom_timeline_start
                  => current_zoom_timeline_seconds = MinZoomSeconds

\* C20: with the per-record matcher of the viewer package, a record is
\* given a classification only if every annotation pair the rule requires
\* is an annotation of the record; a KubeEvent record with interesting=true
\* and without pathological=true is InterestingEvent, and an OperatorState
\* record with condition=Available and status=true is not
\* OperatorUnavailable.
C20_AllPairsMatch ==
    \A i \in DOMAIN events_df.rows :
        \E row \in { events_df.rows[i] } :
            \E classification \in { get_interval_classification(row) } :
                /\ \A n \in DOMAIN classification.simple_series_matcher.annotations_match :
                       \E p \in { classification.simple_series_matcher.annotations_match[n] } :
                           required_value_matches(get_message_annotation(row, p[1]), p[2])
                /\ ( /\ row.tempSource = "KubeEvent"
                     /\ <<"interesting", "true">> \in row.ann
                     /\ <<"pathological", "true">> \notin row.ann )
                       => classification.name = "InterestingEvent"
                /\ ( /\ row.tempSource = "OperatorState"
                     /\ <<"condition", "Available">> \in row.ann
                     /\ <<"status", "true">> \in row.ann )
                       => classification.name # "OperatorUnavailable"

\* C20, for the targeting queries of the analyzer package: a stored record
\* carries a classification only if every annotation pair the rule
\* requires is an annotation of the record, and the two examples of the
\* claim are classified as it says.
C20_TargetingQueryAllPairs ==
    \A i \in DOMAIN events_df.rows :
        \E row \in { events_df.rows[i] } :
            /\ \A n \in DOMAIN IntervalClassifications :
                   row.classification = IntervalClassifications[n].name
                       => IntervalClassifications[n].series_matcher.annotations_match
                              \subseteq row.ann
            /\ ( /\ row.tempSource = "KubeEvent"
                 /\ <<"interesting", "true">> \in row.ann
                 /\ <<"pathological", "true">> \notin row.ann )
                   => row.classification = "InterestingEvent"
            /\ ( /\ row.tempSource = "OperatorState"
                 /\ <<"condition", "Available">> \in row.ann
                 /\ <<"status", "true">> \in row.ann )
                   => row.classification # "OperatorUnavailable"

\* the store holds a KubeEvent record with interesting=true and
\* pathological=false, classified InterestingEvent by its targeting query,
\* and an OperatorState record with condition=Available and status=true,
\* left to the catch-all
C20_OnePairOfTwo ==
    /\ \E i \in DOMAIN events_df.rows :
          /\ <<"interesting", "true">> \in events_df.rows[i].ann
          /\ <<"pathological", "false">> \in events_df.rows[i].ann
          /\ events_df.rows[i].classification = "InterestingEvent"
    /\ \E i \in DOMAIN events_df.rows :
          /\ <<"condition", "Available">> \in events_df.rows[i].ann
          /\ <<"status", "true">> \in events_df.rows[i].ann
          /\ events_df.rows[i].classification = "UnknownClassification"

\* C21: a stored record is classified by the first rule of the table whose
\* constraints it satisfies when the values required of annotations are
\* compared without regard to letter case (severity=Critical is
\* AlertCritical, status=passed is TestPassed).
C21_CaseInsensitiveMatch ==
    \A i \in DOMAIN events_df.rows :
        \E row \in { events_df.rows[i] } :
            \E holding \in
                { { n \in DOMAIN IntervalClassifications :
                      \E c \in { IntervalClassifications[n] } :
                          /\ c.has_matcher
                          /\ MatcherConstraintsHold(
                                 [ c.series_matcher EXCEPT !.annotations_match = {} ], row)
                          /\ \A p \in c.series_matcher.annotations_match :
                                 /\ get_message_annotation(row, p[1]) # Null
                                 /\ Lower(get_message_annotation(row, p[1])) = Lower(p[2]) } } :
                holding # {}
                    => row.classification = IntervalClassifications[MinOf(holding)].name

\* C22: every stored record carries the category and the classification
\* that the rules give the same record when it is classified as a batch of
\* its own, whichever records were ingested with it and however often it
\* was ingested.
C22_ClassificationOfRecordAlone ==
    \A i \in DOMAIN events_df.rows :
        \E row \in { events_df.rows[i] } :
            \E alone \in
                { << RawRecord(row.tempSource, row.ltype, row.lkeys, row.ann, row.reason,
                               row.message, row.locator, row.from, row.to) >> } :
                \E classified \in { ApplyFrom(1, Columns(alone), NewEvents(alone)[1]) } :
                    /\ row.classification = classified.classification
                    /\ row.category = classified.category
                    /\ row.category_str_lower = classified.category_str_lower

\* C22: a Disruption record without `message`, an attribute the rule
\* CIClusterDisruption references, is stored next to a record of its
\* batch that has a message, and is classified Disruption
C22_NextToRecordWithMessage ==
    /\ Len(events_df.rows) = 2
    /\ \E i, j \in DOMAIN events_df.rows :
          /\ events_df.rows[i].tempSource = "Disruption"
          /\ events_df.rows[i].message = Null
          /\ events_df.rows[i].classification = "Disruption"
          /\ events_df.rows[j].message = "pod scheduled"

\* C23: a load of a batch that has the columns add_interval_dicts reads by
\* name completes without raising although rules of the table name
\* columns the batch does not have, the batch is stored, and every stored
\* record is classified by the first rule of the whole table whose
\* constraints it satisfies.
C23_AbsentAttributeNonFatal ==
    (last_call.op = "add_interval_dicts" /\ raised # "KeyError")
        => /\ raised = NoException
           /\ events_df.rows # << >>
           /\ \A i \in DOMAIN events_df.rows :
                  \E row \in { events_df.rows[i] } :
                      \E holding \in
                          { { n \in DOMAIN IntervalClassifications :
                                /\ IntervalClassifications[n].has_matcher
                                /\ MatcherConstraintsHold(
                                       IntervalClassifications[n].series_matcher, row) } } :
                          /\ holding # {}
                          /\ row.classification = IntervalClassifications[MinOf(holding)].name

\* C24: every stored record that has a `from` has a `to`, the `to` of the
\* record ingested without one equals its `from`, duration equals
\* seconds(to - from), and duration is never negative.
C24_DurationWellFormed ==
    \A i \in DOMAIN events_df.rows :
        \E row \in { events_df.rows[i] } :
            row.from # NoTime
                => /\ row.to # NoTime
                   /\ ( /\ row.reason = PathologicalA.reason
                        /\ row.locator = PathologicalA.locator
                        /\ row.from = PathologicalA.from ) => row.to = row.from
                   /\ row.duration = row.to - row.from
                   /\ row.duration >= 0

\* C25: after a load of a batch that has the columns add_interval_dicts
\* reads by name, no stored record has a null `from`, the well-formed
\* record ingested next to the record without `from` is stored, and the
\* load did not raise.
C25_MissingFromDropped ==
    (last_call.op = "add_interval_dicts" /\ raised # "KeyError")
        => /\ \A i \in DOMAIN events_df.rows : events_df.rows[i].from # NoTime
           /\ raised = NoException

\* C26: while nothing is loaded, zoom_to_dates (with or without the
\* collapse filter) and set_filter_query without a filter do not raise,
\* selected_timelines and selected_timeline_keys stay empty, and the zoom
\* window is a non-empty range inside the absolute range.
C26_EmptyStoreOperations ==
    ( /\ events_df = EmptyFrame
      /\ \/ last_call.op = "zoom_to_dates"
         \/ /\ last_call.op = "set_filter_query"
            /\ last_call.query \in { QueryNone, QueryEmpty } )
        => /\ raised = NoException
           /\ selected_timelines = << >>
           /\ selected_timeline_keys = << >>
           /\ absolute_timeline_start <= zoom_timeline_start
           /\ zoom_timeline_start < zoom_timeline_stop
           /\ zoom_timeline_stop <= absolute_timeline_stop

\* C27: the state a zoom_to_dates(a, b, c) leaves is the state the same
\* call leaves when made again, the state a set_filter_query(e) leaves is
\* the state the same call leaves when made again, and zoom_to_dates on
\* the bounds of the current window gives the current window.
C27_Idempotent ==
    /\ last_call.op = "zoom_to_dates"
           => \E window \in { ZoomWindow(last_call.from_dt, last_call.to_dt) } :
                  /\ window = << zoom_timeline_start, zoom_timeline_stop >>
                  /\ IF last_call.collapse /\ <<"to">> \notin selected_rows.columns
                     THEN raised = "KeyError"
                     ELSE /\ last_call.collapse
                                 => /\ selected_timelines
                                        = RetainedTimelines(all_timelines,
                                              RowsInWindow(selected_rows.rows,
                                                           window[1], window[2]))
                                    /\ selected_timeline_keys = TimelineKeys(selected_timelines)
                          /\ \E resized \in { on_zoom_resize(current_timeline_width,
                                                             window[1], window[2]) } :
                                 /\ current_zoom_timeline_seconds
                                        = resized.current_zoom_timeline_seconds
                                 /\ current_pixels_per_second_in_timeline
                                        = resized.current_pixels_per_second_in_timeline
                                 /\ raised = resized.raised
    /\ last_call.op = "set_filter_query"
           => \E result \in { set_filter_query(last_call.query, events_df, all_timelines,
                                               FilterFields) } :
                  /\ selected_rows = result.selected_rows
                  /\ last_filter_query = result.last_filter_query
                  /\ selected_timelines = result.selected_timelines
                  /\ selected_timeline_keys = result.selected_timeline_keys
                  /\ raised = result.raised
    /\ ZoomWindow(zoom_timeline_start, zoom_timeline_stop)
           = << zoom_timeline_start, zoom_timeline_stop >>

\* C28: load_data is called only while the checker holds status_lock, with
\* status.complete set and status.exception None; every statement of the
\* worker or the checker that reads or writes the DownloadStatus runs
\* while its thread holds status_lock; complete is set by the worker under
\* the lock; and once complete is set the contents of status.buffer do
\* not change, nor does any field of the status once the worker has given
\* the lock back.
C28_ThreadSafeHandoff ==
    /\ [] /\ checker_pc = "load_data"
              => /\ status_lock = "checker"
                 /\ status.complete
                 /\ status.exception = Null
          /\ loaded # << >>
              => /\ status.complete
                 /\ status.exception = Null
                 /\ worker_pc = "done"
                 /\ \A n \in DOMAIN loaded :
                        /\ loaded[n].buffer = status.buffer
                        /\ loaded[n].position = 0
          /\ worker_pc \in { "file: message", "file: buffer", "file: release",
                             "chunk: write", "chunk: message", "chunk: release",
                             "except: exception", "except: release",
                             "finally: complete", "finally: seek", "finally: release" }
              <=> status_lock = "worker"
          /\ checker_pc \in { "set_status_area", "if status.complete", "load_data", "join" }
              <=> status_lock = "checker"
    /\ [][ /\ status' # status => status_lock = "worker" /\ status_lock' = "worker"
           /\ status_area' # status_area => status_lock = "checker"
           /\ status.complete
                  => /\ status'.complete
                     /\ status'.buffer = status.buffer
                     /\ status'.exception = status.exception
           /\ (status.complete /\ status_lock # "worker") => status' = status ]_vars

\* C28: load_data was called with the two chunks of a download that ended
\* without exception
C28_DownloadHandedOver ==
    /\ loaded # << >>
    /\ loaded[1].buffer = << "chunk", "chunk" >>
    /\ status_area = << "Downloading..", 2 >>

\* C29: in every state after the first on_zoom_resize (the width is set),
\* current_zoom_timeline_seconds is the length of the zoom window in
\* seconds and current_pixels_per_second_in_timeline is the width divided
\* by that length.
C29_PixelsPerSecondDerived ==
    current_timeline_width # 0
        => /\ current_zoom_timeline_seconds = zoom_timeline_stop - zoom_timeline_start
           /\ zoom_timeline_stop - zoom_timeline_start # 0
           /\ current_pixels_per_second_in_timeline
                  = << current_timeline_width, zoom_timeline_stop - zoom_timeline_start >>

\* the last call was zoom_to_dates(absolute_start - 1h, absolute_start + 5s)
\* on a loaded store whose absolute range is at least 10 seconds
AcrossStartRequested ==
    /\ last_call.op = "zoom_to_dates"
    /\ last_call.from_dt = absolute_timeline_start - OneHour
    /\ last_call.to_dt = absolute_timeline_start + FiveSeconds
    /\ Len(events_df.rows) > 0
    /\ absolute_timeline_stop - absolute_timeline_start >= MinZoomSeconds

\* C31: after zoom_to_dates(absolute_start - 1h, absolute_start + 5s) on a
\* loaded store whose absolute range is at least 10 seconds, the window
\* starts at absolute_start and is exactly 10 seconds long.
C31_TenSecondsAfterClamp ==
    AcrossStartRequested
        => /\ zoom_timeline_start = absolute_timeline_start
           /\ zoom_timeline_stop = absolute_timeline_start + MinZoomSeconds

\* C31, amended: after that call the window starts at absolute_start and
\* keeps the length of the request, one hour and five seconds, or ends at
\* absolute_stop when the absolute range is shorter than that.
C31_RequestedLengthAfterClamp ==
    AcrossStartRequested
        => /\ zoom_timeline_start = absolute_timeline_start
           /\ zoom_timeline_stop =
                  IF absolute_timeline_start + OneHour + FiveSeconds > absolute_timeline_stop
                  THEN absolute_timeline_stop
                  ELSE absolute_timeline_start + OneHour + FiveSeconds

\* C31: the request was made on a store whose range is two hours and the
\* window is the first hour and five seconds of it
C31_AcrossStartOfLongStore ==
    /\ AcrossStartRequested
    /\ absolute_timeline_stop - absolute_timeline_start > OneHour + FiveSeconds
    /\ zoom_timeline_start = absolute_timeline_start
    /\ zoom_timeline_stop = absolute_timeline_start + OneHour + FiveSeconds

\* the stored rows that came from the raw record r
StoredFrom(r) ==
    SelectSeq(events_df.rows,
              LAMBDA row : /\ row.tempSource = r.tempSource
                           /\ row.reason = r.reason
                           /\ row.locator = r.locator
                           /\ row.from = r.from)

\* the store holds exactly the three records of the scenario
TwoTimelinesLoaded ==
    /\ Len(events_df.rows) = 3
    /\ \A n \in 1..3 : Len(StoredFrom(TwoTimelinesBatch[n])) = 1

\* C32: once the three records of the scenario are loaded, their
\* categories are Pod, Pod and Alert
C32_ScenarioCategories ==
    TwoTimelinesLoaded
        => /\ StoredFrom(PodCreatedA)[1].category = <<"str", "Pod">>
           /\ StoredFrom(PodReadyA)[1].category = <<"str", "Pod">>
           /\ StoredFrom(AlertCriticalNoKeys)[1].category = <<"str", "Alert">>

\* C32: once the three records of the scenario are loaded, their
\* categories are Pod, Pod and Alert, and there are exactly two timelines:
\* one of category Pod holding the two records of pod a ordered by `from`,
\* and one of category Alert holding the alert.
C32_TwoTimelines ==
    TwoTimelinesLoaded
        => /\ C32_ScenarioCategories
           /\ Len(all_timelines) = 2
           /\ \E p \in 1..2, a \in 1..2 :
                 /\ all_timelines[p][1][1] = "Pod"
                 /\ all_timelines[p][2] = StoredFrom(PodCreatedA) \o StoredFrom(PodReadyA)
                 /\ all_timelines[a][1][1] = "Alert"
                 /\ all_timelines[a][2] = StoredFrom(AlertCriticalNoKeys)

\* C33: the dialog holding Category `pod` and Classification `not(failed)`,
\* applied to a loaded store, is accepted and selects exactly the records
\* whose category contains 'pod' and whose classification does not
\* contain 'failed', case-insensitively.
C33_PodNotFailedSelected ==
    (/\ last_call.op = "on_apply_click"
     /\ or_fields_set = << PodNotFailed >>
     /\ Len(events_df.rows) > 0)
        => /\ raised = NoException
           /\ selected_rows.rows =
                  SelectSeq(events_df.rows,
                            LAMBDA r : /\ ContainsWords(r.category[2], << "pod" >>)
                                       /\ ~ContainsWords(r.classification, << "failed" >>))

\* the column of the field Pod
PodColumn == column_name("Pod")

\* the dialog holds one field set in which only the field Pod is set
OnlyPodSet ==
    /\ Len(or_fields_set) = 1
    /\ \A n \in DOMAIN FilteringFieldNames :
           is_field_set(or_fields_set[1][n]) <=> FilteringFieldNames[n] = "Pod"

\* the text of the field Pod
PodText == or_fields_set[1][4]

\* the boolean combination a text in the simplified syntax stands for:
\* its words are substring tests, and &, |, not and the parentheses are
\* operators, `not` also when a word follows it without parentheses
MeaningOfSimpleText(text, column) ==
    ParseQuery(SimpleExpressionNotPrefix(text.pieces, column))

\* the stored records with a value in the column, in store order
RowsWithValue(rows, column) ==
    SelectSeq(rows, LAMBDA r : ColumnValue(r, column) # Null)

\* C34: when the dialog with a well-formed text in the simplified syntax
\* in the field Pod is applied and the query is evaluated, the records
\* selected among those that have a pod are exactly those on which the
\* boolean combination of case-insensitive substring tests the text
\* stands for holds, `not` being an operator with or without parentheses
\* around its operand.
C34_SimpleSyntaxMeaning ==
    (/\ last_call.op = "on_apply_click"
     /\ raised = NoException
     /\ OnlyPodSet
     /\ PodText.simple
     /\ MeaningOfSimpleText(PodText, PodColumn) # << "syntax error" >>)
        => RowsWithValue(selected_rows.rows, PodColumn)
               = SelectSeq(RowsWithValue(events_df.rows, PodColumn),
                           LAMBDA r : QueryHolds(MeaningOfSimpleText(PodText, PodColumn), r))

\* C35: a zoom_to_dates call without collapse leaves the store, the last
\* filter query, the selected rows, all_timelines, the selected timelines
\* and their keys unchanged.
C35_ZoomFrame ==
    [][ (last_call'.op = "zoom_to_dates" /\ ~last_call'.collapse)
            => UNCHANGED << events_df, last_filter_query, selected_rows, all_timelines,
                            selected_timelines, selected_timeline_keys >> ]_vars

\* C35: a zoom without collapse moved the window of a loaded store on
\* which a filter selects some of the records, not all
C35_ZoomedUnderFilter ==
    /\ last_call.op = "zoom_to_dates"
    /\ ~last_call.collapse
    /\ raised = NoException
    /\ current_timeline_width # 0
    /\ last_filter_query = QuerySourceAlert
    /\ Len(selected_rows.rows) > 0
    /\ Len(selected_rows.rows) < Len(events_df.rows)
    /\ zoom_timeline_stop - zoom_timeline_start < absolute_timeline_stop - absolute_timeline_start

\* the expression of one field, evaluated on a record
FieldHolds(display_name, text, row) ==
    QueryHolds(ParseQuery(FieldExpression(display_name, text)), row)

\* a field set in which a field is set and the expression of every field
\* that is set holds for the record
FieldSetHolds(field_set, row) ==
    /\ any_field_set(field_set)
    /\ \A n \in DOMAIN FilteringFieldNames :
           is_field_set(field_set[n])
               => FieldHolds(FilteringFieldNames[n], field_set[n], row)

\* C36: when the dialog is applied and the query is evaluated, the query
\* is None and every record is selected if no field is set anywhere;
\* otherwise the records selected are exactly those for which some field
\* set with a field set has the expression of every set field holding.
C36_FieldsAndSetsOr ==
    (last_call.op = "on_apply_click" /\ raised = NoException)
        => IF \A k \in DOMAIN or_fields_set : ~any_field_set(or_fields_set[k])
           THEN /\ last_call.query = QueryNone
                /\ selected_rows = events_df
           ELSE selected_rows.rows =
                    SelectSeq(events_df.rows,
                              LAMBDA r : \E k \in DOMAIN or_fields_set :
                                             FieldSetHolds(or_fields_set[k], r))

\* C36: two field sets were applied, the first with two fields set.  One
\* record is selected by the first set; one is selected by the second set
\* and not by the first, although the expression of one of the two fields
\* of the first set holds for it; and one record is not selected
C36_TwoSetsTwoFields ==
    /\ last_call.op = "on_apply_click"
    /\ raised = NoException
    /\ Len(or_fields_set) = 2
    /\ \E i, j \in DOMAIN selected_rows.rows :
           /\ FieldSetHolds(or_fields_set[1], selected_rows.rows[i])
           /\ FieldSetHolds(or_fields_set[2], selected_rows.rows[j])
           /\ ~FieldSetHolds(or_fields_set[1], selected_rows.rows[j])
           /\ \E n, m \in DOMAIN FilteringFieldNames :
                 /\ n # m
                 /\ is_field_set(or_fields_set[1][n])
                 /\ is_field_set(or_fields_set[1][m])
                 /\ FieldHolds(FilteringFieldNames[n], or_fields_set[1][n],
                               selected_rows.rows[j])
    /\ Len(selected_rows.rows) < Len(events_df.rows)

\* the last call was the reset of the zoom on a store with data
ResetDone ==
    /\ last_call.op = "zoom_to_dates"
    /\ last_call.collapse
    /\ last_call.from_dt = absolute_timeline_start
    /\ last_call.to_dt = absolute_timeline_stop
    /\ Len(events_df.rows) > 0

\* C37: after the reset of the zoom on a store with data, the window is
\* the absolute range and a timeline of the store is among the selected
\* timelines iff one of its records passes the current filter, the
\* selected timelines being in the order of all_timelines.
C37_ResetUndoesCollapse ==
    ResetDone
        => /\ zoom_timeline_start = absolute_timeline_start
           /\ zoom_timeline_stop = absolute_timeline_stop
           /\ selected_timelines = RetainedTimelines(all_timelines, selected_rows.rows)
           /\ \A key \in GroupKeys(events_df.rows) :
                  (\E k \in DOMAIN selected_timelines : selected_timelines[k][1] = key)
                      <=> \E i \in DOMAIN selected_rows.rows :
                              << selected_rows.rows[i].category_str,
                                 selected_rows.rows[i].timeline_id >> = key

\* C38: load_data is called at most once for every import; the checker of
\* an import for which check_download has found the download complete is
\* unscheduled; and a checker is unscheduled only when its own download
\* has ended.
C38_LoadedOnceAndUnscheduled ==
    \A d \in DOMAIN imports :
        /\ imports[d].loads <= 1
        /\ imports[d].seen_complete => imports[d].checker = "unscheduled"
        /\ imports[d].checker = "unscheduled" => imports[d].thread = "ended"

UsesIsNull(text) ==
    /\ ~text.simple
    /\ \E i \in DOMAIN text.pieces : text.pieces[i] = << "isnull" >>

\* the stored records without a value for the field
RowsWithNull(rows, display_name) ==
    SelectSeq(rows, LAMBDA r : ColumnValue(r, column_name(display_name)) = Null)

====
